---------------------------- MODULE Spec2Model ----------------------------
(***************************************************************************)
(* A model of the Leviathan whale tracker: the detection pipeline of       *)
(* fetcher/transactions.py (threshold filter, pattern analysis, address    *)
(* classification, alert de-duplication) and the polling loops and the     *)
(* configuration command of bot/bot.py and whale_bot_integration.py that   *)
(* drive it.                                                               *)
(*                                                                         *)
(* Python dicts are records; a key that a dict may lack is a field the     *)
(* record may lack (Has / Get).  Money is exact: satoshi and USD amounts   *)
(* are integers, a BTC or ETH amount is kept in hundredths of a coin, and  *)
(* the inputs are drawn so that every division of the code is exact.       *)
(***************************************************************************)
EXTENDS Integers, Sequences, FiniteSets, TLC

VARIABLES
    program,            \* the caller: "main", "bot", "cog", "lib", or the function under study
    btc_threshold,      \* WhaleTracker.btc_threshold
    eth_threshold,      \* WhaleTracker.eth_threshold
    btc_price,          \* BitcoinWhaleMonitor.btc_price
    eth_price,          \* EthereumWhaleMonitor.eth_price
    webhook_url,        \* WhaleAlert.webhook_url ("" is None)
    seen_transactions,  \* WhaleAlert.seen_transactions
    pc,                 \* position of the polling loop in its cycle
    cycle,              \* number of the polling cycle
    src,                \* index of the next source of the cycle's gather
    scan,               \* the scan just made: its source, raw batch and events  
    results,            \* events of the cycle still to be alerted, in gather order
    sent,               \* number of events the bot loop took up in this cycle
    ncalls,             \* number of send_alert calls made
    calls,              \* the send_alert invocations in flight
    posts,              \* webhook POSTs made, in order
    logged,             \* alerts written to the log by send_alert without a webhook
    delivered,          \* channel.send calls of the bot loops, in order
    arg,                \* input of the pure function under study
    ret,                \* its result
    now,                \* the event loop's clock, in milliseconds
    last_requests,      \* WhaleTracker.last_requests
    coroutines,         \* the coroutines of a gather that call rate_limit
    requests            \* the requests made, each with its service and time

vars == <<program, btc_threshold, eth_threshold, btc_price, eth_price, webhook_url,
          seen_transactions, pc, cycle, src, scan, results, sent, ncalls, calls, posts,
          logged, delivered, arg, ret, now, last_requests, coroutines, requests>>

rate == <<now, last_requests, coroutines, requests>>

---------------------------------------------------------------------------
(* Bounds of the model *)

MaxCycles == 2          \* polling cycles of a run
MaxCalls == 2           \* send_alert invocations in flight at once
MaxLibCalls == 3        \* send_alert calls a library caller makes
MaxIn == 7              \* distinct input addresses of a generated transaction
MaxOut == 12            \* distinct output addresses of a generated transaction
MaxRepeat == 2          \* extra copies of its first address in a generated list
MaxBare == 1            \* address-less entries of a generated input or output list
MaxEvents == 2          \* events of a cycle after which the upstream delivers no more

(* Program constants *)

SatoshiPerBtc == 100000000
BtcThresholdDefault == 1000000
EthThresholdDefault == 500000
MempoolScanLimit == 50
DisplayLimit == 3
BotAlertLimit == 3
HttpNoContent == 204

None == "None"

---------------------------------------------------------------------------
(* Python dict access *)

Has(d, k) == k \in DOMAIN d

Get(d, k, default) == IF k \in DOMAIN d THEN d[k] ELSE default

RECURSIVE SumSeq(_)
SumSeq(s) == IF s = <<>> THEN 0 ELSE Head(s) + SumSeq(Tail(s))

Take(s, n) == SubSeq(s, 1, IF Len(s) < n THEN Len(s) ELSE n)

Range(s) == {s[i] : i \in DOMAIN s}

---------------------------------------------------------------------------
(* str.lower, str.startswith and the substring test of classify_address *)

UpperCase == "ABCDEFGHIJKLMNOPQRSTUVWXYZ"
LowerCase == "abcdefghijklmnopqrstuvwxyz"

LowerChar(c) ==
    IF \E i \in 1..Len(UpperCase) : SubSeq(UpperCase, i, i) = c
    THEN LET i == CHOOSE j \in 1..Len(UpperCase) : SubSeq(UpperCase, j, j) = c
         IN  SubSeq(LowerCase, i, i)
    ELSE c

RECURSIVE Lower(_)
Lower(s) == IF s = "" THEN "" ELSE LowerChar(SubSeq(s, 1, 1)) \o Lower(SubSeq(s, 2, Len(s)))

UpperChar(c) ==
    IF \E i \in 1..Len(LowerCase) : SubSeq(LowerCase, i, i) = c
    THEN LET i == CHOOSE j \in 1..Len(LowerCase) : SubSeq(LowerCase, j, j) = c
         IN  SubSeq(UpperCase, i, i)
    ELSE c

RECURSIVE Upper(_)
Upper(s) == IF s = "" THEN "" ELSE UpperChar(SubSeq(s, 1, 1)) \o Upper(SubSeq(s, 2, Len(s)))

StartsWith(s, prefix) == Len(s) >= Len(prefix) /\ SubSeq(s, 1, Len(prefix)) = prefix

Contains(s, pattern) ==
    \E i \in 1..(Len(s) - Len(pattern) + 1) : SubSeq(s, i, i + Len(pattern) - 1) = pattern

---------------------------------------------------------------------------
(* WhaleTracker: the known-entity tables *)

KnownExchanges ==
    ( "bc1qgdjqv0av3q56jvd82tkdjpy7gdp9ut8tlqmgrpmv24sq90ecnvqqjwvw97" :> "Coinbase"
   @@ "3M219KBk7ZjsPUe7UpzPcTg1z5y7R25Acz" :> "Coinbase"
   @@ "bc1qar0srrr7xfkvy5l643lydnw9re59gtzzwf5mdq" :> "Coinbase"
   @@ "3FupZp77ySr7jwoLYBUagcEp3nhKxggdy5" :> "Coinbase"
   @@ "bc1qjasf9z3h7w3jspkhtgatgpyvvzgpa2wwd2lr0eh5tx44reyn2k7sfc27a4" :> "Kraken"
   @@ "3BMEXhash77KHeEqgQkZTBC5m4D7dTwq6J" :> "Kraken"
   @@ "bc1qxy2kgdygjrsqtzq2n0yrf2493p83kkfjhx0wlh" :> "Kraken"
   @@ "bc1qmxjefnuy06v345v6vhwpwt05dztztmx2xajzd6xtzch7cceh6k8q7xl5ah" :> "Gemini"
   @@ "3DZ1K9a8rQn3qNLNLHbfkKBtkGWbMw6xhF" :> "Gemini"
   @@ "bc1qm34lsc65zpw79lxes69zkqmk6ee3ewf0j77s3h" :> "Binance (Non-US)"
   @@ "34xp4vRoCGJym3xR7yCVPFHoCNxv4Twseo" :> "Binance (Non-US)" )

(* the mixing-service patterns, in the order of the dict *)
MixingServices == << [pattern |-> "1mixer", name |-> "Mixing Service"] >>

(* no address is found in the exchange directory *)
InNoDirectory(address) == FALSE

(* address in self.known_addresses['exchanges'] *)
InExchangeDirectory(address) == address \in DOMAIN KnownExchanges

(* pattern in address.lower(), for the patterns in dict order *)
MatchingServices(mixing_services, address) ==
    {i \in DOMAIN mixing_services : Contains(Lower(address), mixing_services[i].pattern)}

FirstOf(indices) == CHOOSE i \in indices : \A j \in indices : i <= j

(* the length test with the boundary included *)
IsColdStorageFromFifty(address) == Len(address) >= 50

(* len(address) > 50 *)
IsColdStorage(address) == Len(address) > 50

(* WhaleTracker.classify_address, with the mixing-service table it reads *)
classify_with(mixing_services, address) ==
    IF address = "" \/ address = None THEN <<"unknown", "Unknown">>
    ELSE IF InExchangeDirectory(address)
         THEN <<"exchange", KnownExchanges[address]>>
    ELSE IF MatchingServices(mixing_services, address) # {}
         THEN <<"mixer",
                mixing_services[FirstOf(MatchingServices(mixing_services, address))].name>>
    ELSE IF StartsWith(address, "bc1q")
         THEN IF IsColdStorage(address)
              THEN <<"wallet", "Cold Storage (Bech32)">>
              ELSE <<"wallet", "Personal Wallet (Bech32)">>
    ELSE IF StartsWith(address, "3") THEN <<"wallet", "Multi-sig Wallet">>
    ELSE IF StartsWith(address, "1") THEN <<"wallet", "Legacy Wallet">>
    ELSE <<"unknown", "Unknown Address Type">>

(* the classification with the address in place of the entity's name *)
classify_unnamed(address) == <<classify_with(MixingServices, address)[1], address>>

classify_address(address) == classify_with(MixingServices, address)

---------------------------------------------------------------------------
(* WhaleTracker.analyze_transaction_pattern *)

InputHasAddr(inp) == Has(inp, "prev_out") /\ Has(inp.prev_out, "addr")

OutputHasAddr(out) == Has(out, "addr")

InputAddressSet(tx) ==
    LET inputs == Get(tx, "inputs", <<>>)
    IN  {inputs[i].prev_out.addr : i \in {j \in DOMAIN inputs : InputHasAddr(inputs[j])}}

OutputAddressSet(tx) ==
    LET outputs == Get(tx, "out", <<>>)
    IN  {outputs[i].addr : i \in {j \in DOMAIN outputs : OutputHasAddr(outputs[j])}}

(* the classification with repeated addresses counted each time *)
PatternOfListLengths(tx) ==
    LET inputs  == Get(tx, "inputs", <<>>)
        outputs == Get(tx, "out", <<>>)
        nin  == Cardinality({j \in DOMAIN inputs : InputHasAddr(inputs[j])})
        nout == Cardinality({j \in DOMAIN outputs : OutputHasAddr(outputs[j])})
    IN  IF nin = 1 /\ nout = 1 THEN "simple_transfer"
        ELSE IF nin = 1 /\ nout = 2 THEN "wallet_transfer"
        ELSE IF nin > 5 /\ nout = 1 THEN "consolidation"
        ELSE IF nin = 1 /\ nout > 10 THEN "distribution"
        ELSE IF nin > 1 /\ nout > 1 THEN "complex_transaction"
        ELSE "standard_transaction"

PatternOfAddressSets(tx) ==
    LET nin  == Cardinality(InputAddressSet(tx))
        nout == Cardinality(OutputAddressSet(tx))
    IN  IF nin = 1 /\ nout = 1 THEN "simple_transfer"
        ELSE IF nin = 1 /\ nout = 2 THEN "wallet_transfer"
        ELSE IF nin > 5 /\ nout = 1 THEN "consolidation"
        ELSE IF nin = 1 /\ nout > 10 THEN "distribution"
        ELSE IF nin > 1 /\ nout > 1 THEN "complex_transaction"
        ELSE "standard_transaction"

analyze_transaction_pattern(tx) ==
    IF Get(tx, "inputs", <<>>) = <<>> \/ Get(tx, "out", <<>>) = <<>>
    THEN "unknown"
    ELSE PatternOfAddressSets(tx)

---------------------------------------------------------------------------
(* BitcoinWhaleMonitor._determine_transaction_type *)

TypesOf(addresses) == {addresses[i].type : i \in DOMAIN addresses}

(* the label that does not look at the pattern *)
PatternTypeIgnored(prefix, pattern, other) == other

PatternType(prefix, pattern, other) ==
    IF pattern = "consolidation" THEN prefix \o "_consolidation"
    ELSE IF pattern = "distribution" THEN prefix \o "_distribution"
    ELSE other

(* the rules with the mixing-service rule tried before the exchange rules *)
type_with_mixer_first(from_addresses, to_addresses, pattern) ==
    LET from_types == TypesOf(from_addresses)
        to_types   == TypesOf(to_addresses)
    IN  IF from_addresses = <<>> \/ to_addresses = <<>> THEN "unknown_transfer"
        ELSE IF "mixer" \in from_types \/ "mixer" \in to_types
             THEN "privacy_transaction"
        ELSE IF "exchange" \in from_types /\ "wallet" \in to_types
             THEN "exchange_withdrawal"
        ELSE IF "wallet" \in from_types /\ "exchange" \in to_types
             THEN "exchange_deposit"
        ELSE IF "exchange" \in from_types /\ "exchange" \in to_types
             THEN "exchange_transfer"
        ELSE IF from_types \cup to_types = {"wallet"}
             THEN PatternType("wallet", pattern, "wallet_transfer")
        ELSE PatternType("funds", pattern, "large_transfer")

determine_transaction_type(from_addresses, to_addresses, pattern) ==
    LET from_types == TypesOf(from_addresses)
        to_types   == TypesOf(to_addresses)
    IN  IF from_addresses = <<>> \/ to_addresses = <<>> THEN "unknown_transfer"
        ELSE IF "exchange" \in from_types /\ "wallet" \in to_types
             THEN "exchange_withdrawal"
        ELSE IF "wallet" \in from_types /\ "exchange" \in to_types
             THEN "exchange_deposit"
        ELSE IF "exchange" \in from_types /\ "exchange" \in to_types
             THEN "exchange_transfer"
        ELSE IF from_types \cup to_types = {"wallet"}
             THEN PatternType("wallet", pattern, "wallet_transfer")
        ELSE IF "mixer" \in from_types \/ "mixer" \in to_types
             THEN "privacy_transaction"
        ELSE PatternType("funds", pattern, "large_transfer")

---------------------------------------------------------------------------
(* Amounts.  total_output is in satoshi; btc_amount and eth_amount are in  *)
(* hundredths of a coin; usd_value is in whole dollars.                    *)

TotalOutput(tx) ==
    LET out == Get(tx, "out", <<>>)
    IN  SumSeq([i \in DOMAIN out |-> Get(out[i], "value", 0)])

BtcAmount(total_output) == total_output \div (SatoshiPerBtc \div 100)

UsdValue(amount, price) == (amount * price) \div 100

(* the comparison with the boundary excluded *)
PassesStrictly(usd_value, threshold) == usd_value > threshold

(* usd_value >= threshold *)
Passes(usd_value, threshold) == usd_value >= threshold

---------------------------------------------------------------------------
(* BitcoinWhaleMonitor: the classified address lists of an event *)

RECURSIVE ClassifyInputs(_)
ClassifyInputs(inputs) ==
    IF inputs = <<>> THEN <<>>
    ELSE LET inp == Head(inputs)
         IN  (IF InputHasAddr(inp)
              THEN LET c == classify_address(inp.prev_out.addr)
                   IN  <<[address |-> inp.prev_out.addr, type |-> c[1], entity |-> c[2]]>>
              ELSE <<>>) \o ClassifyInputs(Tail(inputs))

RECURSIVE ClassifyOutputs(_)
ClassifyOutputs(outputs) ==
    IF outputs = <<>> THEN <<>>
    ELSE LET out == Head(outputs)
         IN  (IF OutputHasAddr(out)
              THEN LET c == classify_address(out.addr)
                   IN  <<[address |-> out.addr, type |-> c[1], entity |-> c[2],
                          value |-> BtcAmount(Get(out, "value", 0))]>>
              ELSE <<>>) \o ClassifyOutputs(Tail(outputs))

(* the event with its type resolved from the addresses it displays *)
BitcoinTransferEventOfDisplayed(tx, price, height) ==
    LET tx_pattern     == analyze_transaction_pattern(tx)
        from_addresses == Take(ClassifyInputs(Get(tx, "inputs", <<>>)), DisplayLimit)
        to_addresses   == Take(ClassifyOutputs(Get(tx, "out", <<>>)), DisplayLimit)
    IN  [hash             |-> tx.hash,
         btc_amount       |-> BtcAmount(TotalOutput(tx)),
         usd_value        |-> UsdValue(BtcAmount(TotalOutput(tx)), price),
         timestamp        |-> Get(tx, "time", 0),
         block_height     |-> height,
         type             |-> "bitcoin_transfer",
         transaction_type |-> determine_transaction_type(from_addresses, to_addresses,
                                                         tx_pattern),
         pattern          |-> tx_pattern,
         from_addresses   |-> from_addresses,
         to_addresses     |-> to_addresses,
         total_inputs     |-> Len(Get(tx, "inputs", <<>>)),
         total_outputs    |-> Len(Get(tx, "out", <<>>))]

(* the event of a qualifying block transaction (lines 246-291) *)
BitcoinTransferEvent(tx, price, height) ==
    LET tx_pattern     == analyze_transaction_pattern(tx)
        from_addresses == ClassifyInputs(Get(tx, "inputs", <<>>))
        to_addresses   == ClassifyOutputs(Get(tx, "out", <<>>))
    IN  [hash             |-> tx.hash,
         btc_amount       |-> BtcAmount(TotalOutput(tx)),
         usd_value        |-> UsdValue(BtcAmount(TotalOutput(tx)), price),
         timestamp        |-> Get(tx, "time", 0),
         block_height     |-> height,
         type             |-> "bitcoin_transfer",
         transaction_type |-> determine_transaction_type(from_addresses, to_addresses,
                                                         tx_pattern),
         pattern          |-> tx_pattern,
         from_addresses   |-> Take(from_addresses, DisplayLimit),
         to_addresses     |-> Take(to_addresses, DisplayLimit),
         total_inputs     |-> Len(Get(tx, "inputs", <<>>)),
         total_outputs    |-> Len(Get(tx, "out", <<>>))]

(* the event of a qualifying mempool transaction (lines 316-358) *)
BitcoinPendingEvent(tx, price) ==
    LET tx_pattern     == analyze_transaction_pattern(tx)
        from_addresses == ClassifyInputs(Get(tx, "inputs", <<>>))
        to_addresses   == ClassifyOutputs(Get(tx, "out", <<>>))
    IN  [hash             |-> tx.hash,
         btc_amount       |-> BtcAmount(TotalOutput(tx)),
         usd_value        |-> UsdValue(BtcAmount(TotalOutput(tx)), price),
         timestamp        |-> Get(tx, "time", 0),
         status           |-> "pending",
         type             |-> "bitcoin_pending",
         transaction_type |-> determine_transaction_type(from_addresses, to_addresses,
                                                         tx_pattern),
         pattern          |-> tx_pattern,
         from_addresses   |-> Take(from_addresses, DisplayLimit),
         to_addresses     |-> Take(to_addresses, DisplayLimit)]

---------------------------------------------------------------------------
(* The thresholds and prices a scan reads (self.tracker.btc_threshold,     *)
(* self.btc_price, ...) *)

(* the BTC threshold as a copy taken when the monitor was constructed *)
BtcThresholdAtConstruction == BtcThresholdDefault

TrackerBtcThreshold == btc_threshold
TrackerEthThreshold == eth_threshold

(* a batch the upstream did not deliver: transport error, error payload or *)
(* missing keys, caught by the monitor's except clause *)
Unavailable == [unavailable |-> TRUE]

IsUnavailable(batch) == Has(batch, "unavailable")

(* BitcoinWhaleMonitor.fetch_large_transactions, from the block data on *)
BtcQualifies(tx) ==
    Passes(UsdValue(BtcAmount(TotalOutput(tx)), btc_price), TrackerBtcThreshold)

fetch_large_transactions(batch) ==
    IF IsUnavailable(batch) THEN <<>>
    ELSE LET large == SelectSeq(Get(batch.block_data, "tx", <<>>), BtcQualifies)
         IN  IF \E i \in DOMAIN large : ~Has(large[i], "hash")
             THEN <<>>                                   \* KeyError: line 295
             ELSE [i \in DOMAIN large |->
                      BitcoinTransferEvent(large[i], btc_price, batch.latest_block.height)]

(* BitcoinWhaleMonitor.monitor_mempool *)
monitor_mempool(batch) ==
    IF IsUnavailable(batch) THEN <<>>
    ELSE LET large == SelectSeq(Take(Get(batch, "txs", <<>>), MempoolScanLimit),
                                BtcQualifies)
         IN  IF \E i \in DOMAIN large : ~Has(large[i], "hash")
             THEN <<>>                                   \* KeyError: line 362
             ELSE [i \in DOMAIN large |-> BitcoinPendingEvent(large[i], btc_price)]

---------------------------------------------------------------------------
(* EthereumWhaleMonitor.fetch_large_eth_transfers *)

(* int(tx['value'], 16) / 10**18, in hundredths of ETH, of the values the  *)
(* model's transactions carry                                              *)
EthAmountOfHex ==
    ( "0x0"                 :> 0
   @@ "0x00"                :> 0
   @@ "0x1bc16d674ec80000"  :> 200         \* 2 ETH
   @@ "0xad78ebc5ac6200000" :> 20000       \* 200 ETH
   @@ "0xd8d726b7177a80000" :> 25000 )     \* 250 ETH

EthHasValue(tx) == Has(tx, "value") /\ tx.value # "" /\ tx.value # "0x0"

EthQualifies(tx) ==
    /\ EthHasValue(tx)
    /\ Passes(UsdValue(EthAmountOfHex[tx.value], eth_price), TrackerEthThreshold)

EthTransferEvent(tx, block_num) ==
    [hash         |-> tx.hash,
     eth_amount   |-> EthAmountOfHex[tx.value],
     usd_value    |-> UsdValue(EthAmountOfHex[tx.value], eth_price),
     from         |-> tx.from,
     to           |-> tx.to,
     block_number |-> block_num,
     type         |-> "ethereum_transfer"]

EthTxComplete(tx) == Has(tx, "hash") /\ Has(tx, "from") /\ Has(tx, "to")

RECURSIVE EthBlockEvents(_, _, _)
EthBlockEvents(blocks, latest_block, block_offset) ==
    IF block_offset > Len(blocks) THEN <<>>
    ELSE LET large == SelectSeq(Get(Get(blocks[block_offset], "result",
                                        [transactions |-> <<>>]),
                                    "transactions", <<>>), EthQualifies)
         IN  [i \in DOMAIN large |->
                 IF EthTxComplete(large[i])
                 THEN EthTransferEvent(large[i], latest_block - (block_offset - 1))
                 ELSE [KeyError |-> TRUE]]
             \o EthBlockEvents(blocks, latest_block, block_offset + 1)

fetch_large_eth_transfers(batch) ==
    IF IsUnavailable(batch) THEN <<>>
    ELSE LET large_transfers == EthBlockEvents(batch.blocks, batch.latest_block, 1)
         IN  IF \E i \in DOMAIN large_transfers : Has(large_transfers[i], "KeyError")
             THEN <<>>                                   \* KeyError: line 431
             ELSE large_transfers

---------------------------------------------------------------------------
(* ExchangeMonitor: the order-book monitors *)

(* float(price), float(quantity) of the strings the model's books carry *)
FloatOf ==
    ( "70000.00" :> 70000
   @@ "50000.00" :> 50000
   @@ "2500.00"  :> 2500
   @@ "20"       :> 20
   @@ "1"        :> 1
   @@ "200"      :> 200 )

IsFloat(x) == x \in DOMAIN FloatOf

(* a level as the monitor of each exchange reads it: coinbase_pro and      *)
(* kraken unpack three fields, binance two, gemini reads 'price'/'amount'  *)
LevelWellFormed(exchange, level) ==
    IF exchange = "gemini"
    THEN /\ DOMAIN level \subseteq {"price", "amount", "timestamp"}
         /\ Has(level, "price") /\ Has(level, "amount")
         /\ IsFloat(level.price) /\ IsFloat(level.amount)
    ELSE /\ DOMAIN level = 1..(IF exchange = "binance" THEN 2 ELSE 3)
         /\ IsFloat(level[1]) /\ IsFloat(level[2])

LevelPrice(exchange, level) ==
    FloatOf[IF exchange = "gemini" THEN level.price ELSE level[1]]

LevelQuantity(exchange, level) ==
    FloatOf[IF exchange = "gemini" THEN level.amount ELSE level[2]]

(* 'BTC' in symbol ('btc' in symbol for gemini) *)
SymbolNeedle(exchange) == IF exchange = "gemini" THEN "btc" ELSE "BTC"

OrderThreshold(exchange, symbol) ==
    IF Contains(symbol, SymbolNeedle(exchange)) THEN TrackerBtcThreshold
    ELSE TrackerEthThreshold

OrderEvent(exchange, symbol, side, level) ==
    [exchange  |-> exchange,
     symbol    |-> IF exchange = "gemini" THEN Upper(symbol) ELSE symbol,
     side      |-> side,
     price     |-> LevelPrice(exchange, level),
     quantity  |-> LevelQuantity(exchange, level),
     usd_value |-> LevelPrice(exchange, level) * LevelQuantity(exchange, level),
     type      |-> "exchange_order"]

(* the orders of a side with the last level first *)
RECURSIVE SideOrdersLastFirst(_, _, _, _)
SideOrdersLastFirst(exchange, symbol, side, levels) ==
    IF levels = <<>> THEN <<>>
    ELSE LET level == Head(levels)
         IN  SideOrdersLastFirst(exchange, symbol, side, Tail(levels))
             \o (IF Passes(LevelPrice(exchange, level) * LevelQuantity(exchange, level),
                           OrderThreshold(exchange, symbol))
                 THEN <<OrderEvent(exchange, symbol, side, level)>>
                 ELSE <<>>)

RECURSIVE SideOrders(_, _, _, _)
SideOrders(exchange, symbol, side, levels) ==
    IF levels = <<>> THEN <<>>
    ELSE LET level == Head(levels)
         IN  (IF Passes(LevelPrice(exchange, level) * LevelQuantity(exchange, level),
                        OrderThreshold(exchange, symbol))
              THEN <<OrderEvent(exchange, symbol, side, level)>>
              ELSE <<>>) \o SideOrders(exchange, symbol, side, Tail(levels))

(* the pair's book: the response itself, or for kraken the first value of  *)
(* its 'result' (lines 511-516)                                            *)
BookOf(exchange, data) ==
    IF exchange = "kraken"
    THEN IF Get(data, "result", <<>>) = <<>> THEN [bids |-> <<>>, asks |-> <<>>]
         ELSE Head(data.result)
    ELSE data

monitor_orderbook(exchange, symbol, data) ==
    IF IsUnavailable(data) THEN <<>>
    ELSE IF exchange = "kraken" /\ Get(data, "error", <<>>) # <<>> THEN <<>>
    ELSE LET bids == Get(BookOf(exchange, data), "bids", <<>>)
             asks == Get(BookOf(exchange, data), "asks", <<>>)
         IN  IF \E i \in DOMAIN (bids \o asks) :
                    ~LevelWellFormed(exchange, (bids \o asks)[i])
             THEN <<>>                         \* ValueError / KeyError
             ELSE SideOrders(exchange, symbol, "buy", bids)
                  \o SideOrders(exchange, symbol, "sell", asks)

---------------------------------------------------------------------------
(* WhaleAlert.format_alert_message: the fields each message is built from, *)
(* or the exception the f-string raises                                    *)

Raised(exception) == [raises |-> exception]

Message(fields) == [text |-> fields]

HasAll(d, keys) == keys \subseteq DOMAIN d

format_alert_message(whale_data) ==
    IF ~Has(whale_data, "type") THEN Raised("KeyError")
    ELSE IF whale_data.type = "bitcoin_transfer"
    THEN IF HasAll(whale_data, {"btc_amount", "usd_value", "hash", "timestamp"})
         THEN Message(<<"Bitcoin Whale Alert", whale_data.btc_amount,
                        whale_data.usd_value, Take(whale_data.hash, 16),
                        whale_data.timestamp>>)
         ELSE Raised("KeyError")
    ELSE IF whale_data.type = "ethereum_transfer"
    THEN IF ~HasAll(whale_data, {"eth_amount", "usd_value", "hash", "from", "to"})
         THEN Raised("KeyError")
         ELSE IF whale_data.from = None \/ whale_data.to = None
         THEN Raised("TypeError")
         ELSE Message(<<"Ethereum Whale Alert", whale_data.eth_amount,
                        whale_data.usd_value, Take(whale_data.hash, 16),
                        Take(whale_data.from, 10), Take(whale_data.to, 10)>>)
    ELSE IF whale_data.type = "exchange_order"
    THEN IF HasAll(whale_data, {"side", "exchange", "symbol", "usd_value", "price"})
         THEN Message(<<"Large Order", whale_data.side, whale_data.exchange,
                        whale_data.symbol, whale_data.usd_value, whale_data.price>>)
         ELSE Raised("KeyError")
    ELSE Message(<<"Whale activity detected", Get(whale_data, "usd_value", 0)>>)

(* alert_id: f"{hash}{symbol}{usd_value}" (line 703) *)
AlertId(whale_data) ==
    Get(whale_data, "hash", "") \o Get(whale_data, "symbol", "")
        \o ToString(Get(whale_data, "usd_value", 0))

---------------------------------------------------------------------------
(* The upstream data the model draws from *)

WalletLegacy == "1A1zP1eP5QGefi2DMPTfTL5SLmv7DivfNa"
WalletBech32 == "bc1qw508d6qejxtdg4y5r3zarvary0c5xw7kv8f3t4"
CoinbaseAddr == "3M219KBk7ZjsPUe7UpzPcTg1z5y7R25Acz"

(* 20 BTC from a wallet to an exchange, with change *)
TxWhale ==
    [hash   |-> "4a5e1e4baab89f3a32518a88c31bc87f618f76673e2cc77ab2127b7afdeda33b",
     inputs |-> <<[prev_out |-> [addr |-> WalletLegacy, value |-> 2000000000]]>>,
     out    |-> <<[addr |-> CoinbaseAddr, value |-> 1900000000],
                  [addr |-> WalletLegacy, value |-> 100000000]>>,
     time   |-> 1700000000]

(* 0.5 BTC between two wallets *)
TxSmall ==
    [hash   |-> "0e3e2357e806b6cdb1f70b54c3a3a17b6714ee1f0e68bebb44a74b1efd512098",
     inputs |-> <<[prev_out |-> [addr |-> WalletBech32, value |-> 50000000]]>>,
     out    |-> <<[addr |-> WalletLegacy, value |-> 50000000]>>,
     time   |-> 1700000100]

BlockOf(txs) ==
    [latest_block |-> [hash |-> "00000000000000000002a7c4c1e48d76c5a37902165a270156b7a8d72728a054",
                       height |-> 800000],
     block_data   |-> [tx |-> txs]]

MempoolOf(txs) == [txs |-> txs]

EthScannedBlocks == 5

(* 200 ETH *)
EthWhale ==
    [hash  |-> "0x5c504ed432cb51138bcf09aa5e8a410dd4a1e204ef84bfed1be16dfba1b22060",
     value |-> "0xad78ebc5ac6200000",
     from  |-> "0xa1e4380a3b1f749673e270229993ee55f35663b4",
     to    |-> "0x5df9b87991262f6ba471f09758cde1c0fc1de734"]

(* 2 ETH *)
EthSmall ==
    [hash  |-> "0x19f1df2c7ee6b464720ad28e903aeda1a5ad8780afc22f0b960827bd4fcf656d",
     value |-> "0x1bc16d674ec80000",
     from  |-> "0x5df9b87991262f6ba471f09758cde1c0fc1de734",
     to    |-> "0xa1e4380a3b1f749673e270229993ee55f35663b4"]

(* a call that moves no ether *)
EthZero ==
    [hash  |-> "0x9b2f6a3c2e1aed2cccf92ba666c22d053ad0d8a5da7aa1fd5477dcd6577b4524",
     value |-> "0x0",
     from  |-> "0xa1e4380a3b1f749673e270229993ee55f35663b4",
     to    |-> "0x5df9b87991262f6ba471f09758cde1c0fc1de734"]

EthBlocksOf(txs) ==
    [latest_block |-> 18000000,
     blocks |-> [i \in 1..EthScannedBlocks |->
                    [result |-> [transactions |-> IF i = 1 THEN txs ELSE <<>>]]]]

(* a book with one level on each side, in the shape of each exchange *)
LevelOf(exchange, price, quantity) ==
    IF exchange = "gemini" THEN [price |-> price, amount |-> quantity]
    ELSE IF exchange = "binance" THEN <<price, quantity>>
    ELSE <<price, quantity, 1>>

BookData(exchange, bids, asks) ==
    IF exchange = "kraken"
    THEN [error |-> <<>>, result |-> <<[bids |-> bids, asks |-> asks]>>]
    ELSE [bids |-> bids, asks |-> asks]

KrakenError == [error |-> <<"EGeneral:Internal error">>]

BtcPrices == {50000, 60000}
EthPrices == {2500}

---------------------------------------------------------------------------
(* The sources each polling loop gathers, in the order of its gather call  *)

Source(kind, symbol) == [kind |-> kind, symbol |-> symbol]

OnChain(kind) == [kind |-> kind]

MainSources ==
    << OnChain("block"), OnChain("mempool"), OnChain("eth"),
       Source("coinbase_pro", "BTC-USD"), Source("coinbase_pro", "ETH-USD"),
       Source("kraken", "BTCUSD"), Source("kraken", "ETHUSD"),
       Source("gemini", "btcusd"), Source("gemini", "ethusd") >>

BotSources ==
    << OnChain("block"), OnChain("mempool"),
       Source("coinbase_pro", "BTC-USD"), Source("coinbase_pro", "ETH-USD"),
       Source("kraken", "BTCUSD"), Source("kraken", "ETHUSD"),
       Source("gemini", "btcusd"), Source("gemini", "ethusd") >>

CogSources ==
    << OnChain("block"), OnChain("mempool"),
       Source("binance", "BTCUSDT"), Source("binance", "ETHUSDT") >>

Sources ==
    IF program = "main" THEN MainSources
    ELSE IF program = "bot" THEN BotSources
    ELSE CogSources

(* the monitor a source's coroutine runs *)
ScanSource(source, batch) ==
    IF source.kind = "block" THEN fetch_large_transactions(batch)
    ELSE IF source.kind = "mempool" THEN monitor_mempool(batch)
    ELSE IF source.kind = "eth" THEN fetch_large_eth_transfers(batch)
    ELSE monitor_orderbook(source.kind, source.symbol, batch)

(* what the upstream may answer a source of a polling loop *)
BookOfSymbol(exchange, symbol) ==
    IF Contains(Upper(symbol), "BTC")
    THEN BookData(exchange, <<LevelOf(exchange, "70000.00", "20"),
                              LevelOf(exchange, "70000.00", "1")>>, <<>>)
    ELSE BookData(exchange, <<>>, <<LevelOf(exchange, "2500.00", "200")>>)

LoopBatches(source) ==
    IF source.kind = "block" THEN {BlockOf(<<TxSmall, TxWhale>>)}
    ELSE IF source.kind = "mempool" THEN {MempoolOf(<<TxWhale>>)}
    ELSE IF source.kind = "eth" THEN {EthBlocksOf(<<EthZero, EthWhale>>)}
    ELSE {BookOfSymbol(source.kind, source.symbol)}

---------------------------------------------------------------------------
(* State *)

Idle == [pc |-> "idle"]

NoScan == [source |-> OnChain("none"), raw |-> Unavailable, events |-> <<>>]

WebhookUrl == "https://discord.com/api/webhooks/1/token"

(* no rate_limit call has been made *)
NoRequests ==
    /\ now = 0
    /\ last_requests = <<>>
    /\ coroutines = <<>>
    /\ requests = <<>>

InitState(prog, hook, start) ==
    /\ NoRequests
    /\ program = prog
    /\ btc_threshold = BtcThresholdDefault
    /\ eth_threshold = EthThresholdDefault
    /\ btc_price = 0
    /\ eth_price = 0
    /\ webhook_url = hook
    /\ seen_transactions = {}
    /\ pc = start
    /\ cycle = 1
    /\ src = 1
    /\ scan = NoScan
    /\ results = <<>>
    /\ sent = 0
    /\ ncalls = 0
    /\ calls = [i \in 1..MaxCalls |-> Idle]
    /\ posts = <<>>
    /\ logged = <<>>
    /\ delivered = <<>>
    /\ arg = None
    /\ ret = None

---------------------------------------------------------------------------
(* WhaleAlert.send_alert, up to its first suspension (the POST of line 712) *)

IsDuplicateNever(alert_id) == FALSE

(* alert_id in self.seen_transactions *)
IsDuplicate(alert_id) == alert_id \in seen_transactions

MarkSeenOnly(alert_id) == {alert_id}

MarkSeenForgotten(alert_id) == seen_transactions

(* self.seen_transactions.add(alert_id) *)
MarkSeen(alert_id) == seen_transactions \cup {alert_id}

(* how the call leaves its synchronous part:
     "logged"    no webhook: the message is logged and the call returns
     "duplicate" the fingerprint is seen: the call returns
     "post"      the fingerprint is marked and the POST is awaited
     "caught"    the fingerprint is marked, formatting raised KeyError, caught
     a raised exception otherwise (formatting outside the try, or TypeError) *)
SendAlertOutcome(whale_data) ==
    LET message == format_alert_message(whale_data)
    IN  IF webhook_url = ""
        THEN IF Has(message, "raises") THEN message.raises ELSE "logged"
        ELSE IF IsDuplicate(AlertId(whale_data)) THEN "duplicate"
        ELSE IF ~Has(message, "raises") THEN "post"
        ELSE IF message.raises = "KeyError" THEN "caught"
        ELSE message.raises

AlertRecord(whale_data) ==
    [cycle    |-> cycle,
     alert_id |-> AlertId(whale_data),
     hash     |-> Get(whale_data, "hash", ""),
     type     |-> Get(whale_data, "type", "")]

SendAlertBegin(i, whale_data) ==
    LET outcome == SendAlertOutcome(whale_data)
    IN  /\ calls[i].pc = "idle"
        /\ ncalls' = ncalls + 1
        /\ logged' = IF outcome = "logged"
                     THEN Append(logged, AlertRecord(whale_data))
                     ELSE logged
        /\ seen_transactions' =
               IF webhook_url # "" /\ outcome # "duplicate"
               THEN MarkSeen(AlertId(whale_data))
               ELSE seen_transactions
        /\ calls' = IF outcome = "post"
                    THEN [calls EXCEPT ![i] = [pc |-> "post", whale_data |-> whale_data]]
                    ELSE calls

(* the POST completes: status 204, another status, or aiohttp.ClientError *)
PostOutcomes ==
    { [status |-> HttpNoContent, error |-> ""],
      [status |-> 500, error |-> ""],
      [status |-> 0, error |-> "ClientError"] }

SendAlertPost(i) ==
    /\ calls[i].pc = "post"
    /\ \E response \in PostOutcomes :
          posts' = Append(posts, response @@ AlertRecord(calls[i].whale_data))
    /\ calls' = [calls EXCEPT ![i] = Idle]
    /\ UNCHANGED <<rate, program, btc_threshold, eth_threshold, btc_price, eth_price,
                   webhook_url, seen_transactions, pc, cycle, src, scan, results,
                   sent, ncalls, logged, delivered, arg, ret>>

---------------------------------------------------------------------------
(* A caller of the library: send_alert calls on one WhaleAlert instance,   *)
(* any number of them in flight                                            *)

LibEvents ==
    { BitcoinTransferEvent(TxWhale, 50000, 800000),
      BitcoinTransferEvent(TxWhale, 60000, 800000),
      BitcoinPendingEvent(TxWhale, 50000),
      OrderEvent("coinbase_pro", "BTC-USD", "buy", LevelOf("coinbase_pro", "70000.00", "20")) }

LibCall(i, whale_data) ==
    /\ program = "lib"
    /\ ncalls < MaxLibCalls
    /\ SendAlertBegin(i, whale_data)
    /\ UNCHANGED <<rate, program, btc_threshold, eth_threshold, btc_price, eth_price,
                   webhook_url, pc, cycle, src, scan, results, sent, posts,
                   delivered, arg, ret>>

InitLib == \E hook \in {"", WebhookUrl} : InitState("lib", hook, "calls")

NextLib ==
    \/ \E i \in 1..MaxCalls, whale_data \in LibEvents : LibCall(i, whale_data)
    \/ \E i \in 1..MaxCalls : SendAlertPost(i)

SpecLib == InitLib /\ [][NextLib]_vars

---------------------------------------------------------------------------
(* The polling cycle: prices, the gather of the sources, the alerts        *)

(* what the price request brings: <<>> when it fails, <<p>> the price p     *)
Failed == <<>>

PriceAnswers(prices) == {Failed} \cup {<<p>> : p \in prices}

(* get_btc_price / get_eth_price: the field after the request (a failed    *)
(* request leaves it as it was)                                            *)
get_btc_price(fetched) == IF fetched = Failed THEN btc_price ELSE fetched[1]

get_eth_price(fetched) == IF fetched = Failed THEN eth_price ELSE fetched[1]

FallbackBtcPrice == 45000

FallbackEthPrice == 2500

(* what get_btc_price / get_eth_price return to the caller: the fetched    *)
(* price, or after a failed request `self.btc_price or 45000`              *)
btc_price_returned(fetched) ==
    IF fetched # Failed THEN fetched[1]
    ELSE IF btc_price # 0 THEN btc_price ELSE FallbackBtcPrice

eth_price_returned(fetched) ==
    IF fetched # Failed THEN fetched[1]
    ELSE IF eth_price # 0 THEN eth_price ELSE FallbackEthPrice

UpdatePrices ==
    /\ pc = "prices"
    /\ \E b \in PriceAnswers(BtcPrices), e \in PriceAnswers(EthPrices) :
          /\ btc_price' = get_btc_price(b)
          /\ eth_price' = get_eth_price(e)
    /\ pc' = "fetch"
    /\ src' = 1
    /\ results' = <<>>
    /\ UNCHANGED <<rate, program, btc_threshold, eth_threshold, webhook_url,
                   seen_transactions, cycle, scan, sent, ncalls, calls, posts,
                   logged, delivered, arg, ret>>

(* one coroutine of the gather completes; the gather returns the results   *)
(* in the order of its arguments                                           *)
FetchSource ==
    /\ pc = "fetch"
    /\ src <= Len(Sources)
    /\ \E batch \in (IF Len(results) < MaxEvents THEN LoopBatches(Sources[src]) ELSE {})
                        \cup {Unavailable} :
          results' = results \o ScanSource(Sources[src], batch)
    /\ src' = src + 1
    /\ pc' = IF src = Len(Sources) THEN "alert" ELSE "fetch"
    /\ sent' = 0
    /\ UNCHANGED <<rate, program, btc_threshold, eth_threshold, btc_price, eth_price,
                   webhook_url, seen_transactions, cycle, scan, ncalls, calls, posts,
                   logged, delivered, arg, ret>>

(* transactions.main, lines 769-773: await send_alert for the next event   *)
MainAlert ==
    /\ program = "main"
    /\ pc = "alert"
    /\ results # <<>>
    /\ SendAlertBegin(1, Head(results))
    /\ results' = Tail(results)
    /\ pc' = LET outcome == SendAlertOutcome(Head(results))
             IN  IF outcome \in {"logged", "duplicate", "post", "caught"} THEN "alert"
                 ELSE IF outcome \in {"KeyError", "ValueError"} THEN "sleep"
                 ELSE "stopped"
    /\ UNCHANGED <<rate, program, btc_threshold, eth_threshold, btc_price, eth_price,
                   webhook_url, cycle, src, scan, sent, posts, delivered, arg, ret>>

(* bot.whale_monitor, lines 325-372: the first three events of the cycle   *)
(* go to the channel                                                       *)
BotAlert ==
    /\ program = "bot"
    /\ pc = "alert"
    /\ results # <<>>
    /\ sent < BotAlertLimit
    /\ \E channel \in BOOLEAN :
          delivered' = IF channel THEN Append(delivered, AlertRecord(Head(results)))
                       ELSE delivered
    /\ results' = Tail(results)
    /\ sent' = sent + 1
    /\ UNCHANGED <<rate, program, btc_threshold, eth_threshold, btc_price, eth_price,
                   webhook_url, seen_transactions, pc, cycle, src, scan, ncalls,
                   calls, posts, logged, arg, ret>>

(* WhaleCog.whale_monitor_task, lines 199-214: every event is formatted    *)
(* and sent to the channel; an exception ends the cycle                    *)
CogAlert ==
    /\ program = "cog"
    /\ pc = "alert"
    /\ results # <<>>
    /\ \E channel \in BOOLEAN :
          delivered' = IF channel /\ ~Has(format_alert_message(Head(results)), "raises")
                       THEN Append(delivered, AlertRecord(Head(results)))
                       ELSE delivered
    /\ results' = Tail(results)
    /\ pc' = IF Has(format_alert_message(Head(results)), "raises") THEN "sleep" ELSE "alert"
    /\ UNCHANGED <<rate, program, btc_threshold, eth_threshold, btc_price, eth_price,
                   webhook_url, seen_transactions, cycle, src, scan, sent, ncalls,
                   calls, posts, logged, arg, ret>>

CycleDone ==
    \/ pc = "sleep"
    \/ /\ pc = "alert"
       /\ calls[1].pc = "idle"
       /\ results = <<>> \/ (program = "bot" /\ sent >= BotAlertLimit)

(* the loop sleeps and starts its next cycle *)
NextCycle ==
    /\ CycleDone
    /\ cycle < MaxCycles
    /\ cycle' = cycle + 1
    /\ pc' = "prices"
    /\ UNCHANGED <<rate, program, btc_threshold, eth_threshold, btc_price, eth_price,
                   webhook_url, seen_transactions, src, scan, results, sent, ncalls,
                   calls, posts, logged, delivered, arg, ret>>

(* whale_config(btc_threshold, eth_threshold): bot.py lines 191-205,       *)
(* whale_bot_integration.py lines 117-131                                  *)
ConfigValues == {-1, 50000}

(* an optional argument: <<>> is None, <<v>> is the value v *)
NotGiven == <<>>

Given(v) == <<v>>

ConfigArgs == {NotGiven} \cup {Given(v) : v \in ConfigValues}

(* if x is not None: self.whale_tracker.x_threshold = x *)
SetThreshold(old, given) == IF given = NotGiven THEN old ELSE given[1]

WhaleConfig(btc, eth) ==
    /\ pc = "commands"
    /\ btc_threshold' = SetThreshold(btc_threshold, btc)
    /\ eth_threshold' = SetThreshold(eth_threshold, eth)
    /\ UNCHANGED <<rate, program, btc_price, eth_price, webhook_url, seen_transactions, pc,
                   cycle, src, scan, results, sent, ncalls, calls, posts, logged,
                   delivered, arg, ret>>

---------------------------------------------------------------------------
(* transactions.main.  Line 739 constructs the WhaleAlert; the webhook URL *)
(* is the argument the deployment adds there, absent as shipped.           *)

Init == \E hook \in {"", WebhookUrl} : InitState("main", hook, "prices")

Next ==
    \/ UpdatePrices
    \/ FetchSource
    \/ MainAlert
    \/ SendAlertPost(1)
    \/ NextCycle

Spec == Init /\ [][Next]_vars

(* the bots: bot.run_bot and WhaleCog *)

InitBot ==
    \E prog \in {"bot", "cog"} :
        \E hook \in (IF prog = "bot" THEN {"", WebhookUrl} ELSE {""}) :
            InitState(prog, hook, "prices")

NextBot ==
    \/ UpdatePrices
    \/ FetchSource
    \/ BotAlert
    \/ CogAlert
    \/ NextCycle

SpecBot == InitBot /\ [][NextBot]_vars

---------------------------------------------------------------------------
(* The monitors under the commands: scans of any source (the loops,        *)
(* whale_check), price requests (whale_check, whale_prices) and            *)
(* whale_config arrive in any order on one shared WhaleTracker.  scan      *)
(* holds the batch and the events of a scan until its caller has them.     *)

(* a whale without 'hash', a whale transfer without 'to', a level with a   *)
(* field missing                                                           *)
TxNoHash == [inputs |-> TxWhale.inputs, out |-> TxWhale.out, time |-> TxWhale.time]

EthNoTo == [hash |-> EthWhale.hash, value |-> EthWhale.value, from |-> EthWhale.from]

(* addresses the prefix heuristics do not know, and legacy addresses *)
TaprootAddr(i) == "bc1p5cyxnuxmeuwuvkwfem96lqzszd02n6xdcjrs20cac6yqjjwudpx" \o ToString(i)

LegacyAddr(i) == "1BoatSLRHtKNngkdXEeobR76b53LETtp" \o ToString(i)

ColdStorageAddr == "bc1qrp33g0q5c5txsp9arysrx4k6zdkfs4nce4xj0gdcccefvpysxf3qccfmv3"

MixerAddr == "1MiXeR7Hq2LpZ9dKfWc3TnB5"

(* 20 BTC from a mixer, an address of unknown shape, an exchange and a     *)
(* coinbase input to cold storage, with an OP_RETURN output                *)
TxMixed ==
    [hash   |-> "f4184fc596403b9d638783cf57adfe4c75c605f6356fbc91338530e9831e9e16",
     inputs |-> <<[prev_out |-> [addr |-> MixerAddr, value |-> 500000000]],
                  [prev_out |-> [addr |-> TaprootAddr(0), value |-> 500000000]],
                  [prev_out |-> [addr |-> CoinbaseAddr, value |-> 1000000000]],
                  [script |-> ""]>>,
     out    |-> <<[addr |-> ColdStorageAddr, value |-> 2000000000],
                  [value |-> 0]>>,
     time   |-> 1700000200]

(* 20 BTC from eight addresses to one exchange address *)
TxGathered(hash, from) ==
    [hash   |-> hash,
     inputs |-> [i \in 1..8 |-> [prev_out |-> [addr |-> from[i], value |-> 250000000]]],
     out    |-> <<[addr |-> CoinbaseAddr, value |-> 2000000000]>>,
     time   |-> 1700000300]

TxFromUnknown ==
    TxGathered("a1075db55d416d3ca199f55b6084e2115b9345e16c5cf302fc80e9d5fbf5d48d",
               [i \in 1..8 |-> TaprootAddr(i)])

TxFromWallets ==
    TxGathered("6f7cf9580f1c2dfb3c4d5d043cdbb128c640e3f20161245aa7372e9666168516",
               [i \in 1..8 |-> LegacyAddr(i)])

(* 20 BTC to an exchange from three addresses of unknown shape and, in     *)
(* fourth place, a legacy wallet                                           *)
TxLateWallet ==
    [hash   |-> "d5d27987d2a3dfc724e359870c6644b40e497bdc0589a033220fe15429d88599",
     inputs |-> [i \in 1..4 |->
                   [prev_out |-> [addr  |-> IF i < 4 THEN TaprootAddr(i) ELSE LegacyAddr(i),
                                  value |-> 500000000]]],
     out    |-> <<[addr |-> CoinbaseAddr, value |-> 2000000000]>>,
     time   |-> 1700000400]

(* 20 BTC from a wallet to an exchange, with an output of value zero to an *)
(* address                                                                 *)
TxZeroOutput ==
    [hash   |-> "e3bf3d07d4b0375638d5f1db5255fe07ba2c4cb067cd81b84ee974b6585fb468",
     inputs |-> <<[prev_out |-> [addr |-> WalletLegacy, value |-> 2000000000]]>>,
     out    |-> <<[addr |-> CoinbaseAddr, value |-> 2000000000],
                  [addr |-> WalletBech32, value |-> 0]>>,
     time   |-> 1700000500]

ShortLevel(exchange) ==
    IF exchange = "gemini" THEN [price |-> "70000.00"] ELSE <<"70000.00">>

ScanSources == Range(MainSources) \cup Range(CogSources)

ScanBatches(source) ==
    {Unavailable} \cup
    IF source.kind = "block"
    THEN {BlockOf(<<TxSmall, TxWhale>>), BlockOf(<<TxWhale, TxNoHash, TxSmall>>),
          BlockOf(<<TxMixed>>), BlockOf(<<TxFromUnknown, TxFromWallets>>),
          BlockOf(<<TxLateWallet>>), BlockOf(<<TxZeroOutput>>)}
    ELSE IF source.kind = "mempool"
    THEN {MempoolOf(<<TxWhale, TxSmall>>),
          MempoolOf([i \in 1..(MempoolScanLimit + 1) |->
                        IF i <= MempoolScanLimit THEN TxSmall ELSE TxWhale]),
          MempoolOf(<<TxNoHash, TxWhale>>),
          MempoolOf(<<TxLateWallet, TxFromWallets>>)}
    ELSE IF source.kind = "eth"
    THEN {EthBlocksOf(<<EthZero, EthWhale, EthSmall>>), EthBlocksOf(<<EthWhale, EthNoTo>>)}
    ELSE {BookOfSymbol(source.kind, source.symbol),
          BookData(source.kind, <<LevelOf(source.kind, "50000.00", "20")>>,
                                <<LevelOf(source.kind, "70000.00", "20"),
                                  LevelOf(source.kind, "2500.00", "200"),
                                  LevelOf(source.kind, "2500.00", "1")>>),
          BookData(source.kind, <<LevelOf(source.kind, "70000.00", "20")>>,
                                <<ShortLevel(source.kind)>>)}
         \cup (IF source.kind = "kraken" THEN {KrakenError} ELSE {})

MonitorScan(source, batch) ==
    /\ pc = "commands"
    /\ pc' = "scanned"
    /\ scan' = [source |-> source, raw |-> batch, events |-> ScanSource(source, batch)]
    /\ UNCHANGED <<rate, program, btc_threshold, eth_threshold, btc_price, eth_price,
                   webhook_url, seen_transactions, cycle, src, results, sent,
                   ncalls, calls, posts, logged, delivered, arg, ret>>

ScanReturn ==
    /\ pc = "scanned"
    /\ pc' = "commands"
    /\ scan' = NoScan
    /\ UNCHANGED <<rate, program, btc_threshold, eth_threshold, btc_price, eth_price,
                   webhook_url, seen_transactions, cycle, src, results, sent,
                   ncalls, calls, posts, logged, delivered, arg, ret>>

PriceRequest(b, e) ==
    /\ pc = "commands"
    /\ btc_price' = get_btc_price(b)
    /\ eth_price' = get_eth_price(e)
    /\ UNCHANGED <<rate, program, btc_threshold, eth_threshold, webhook_url,
                   seen_transactions, pc, cycle, src, scan, results, sent, ncalls,
                   calls, posts, logged, delivered, arg, ret>>

InitScan == InitState("bot", "", "commands")

NextScan ==
    \/ \E source \in ScanSources : \E batch \in ScanBatches(source) :
          MonitorScan(source, batch)
    \/ ScanReturn
    \/ \E b \in PriceAnswers(BtcPrices), e \in PriceAnswers(EthPrices) :
          PriceRequest(b, e)
    \/ \E btc \in ConfigArgs, eth \in ConfigArgs : WhaleConfig(btc, eth)

SpecScan == InitScan /\ [][NextScan]_vars

---------------------------------------------------------------------------
(* analyze_transaction_pattern on generated transactions: n distinct       *)
(* addresses, the first of them repeated, and entries without an address   *)
(* (a coinbase input, an OP_RETURN output)                                 *)

Addr(i) == "addr" \o ToString(i)

AddressList(distinct, repeated) ==
    [i \in 1..(distinct + (IF distinct = 0 THEN 0 ELSE repeated)) |->
        IF i <= distinct THEN Addr(i) ELSE Addr(1)]

InputsOf(distinct, repeated, bare) ==
    [i \in 1..bare |-> [script |-> ""]]
    \o [i \in DOMAIN AddressList(distinct, repeated) |->
           [prev_out |-> [addr |-> AddressList(distinct, repeated)[i], value |-> 1]]]

OutputsOf(distinct, repeated, bare) ==
    [i \in DOMAIN AddressList(distinct, repeated) |->
        [addr |-> AddressList(distinct, repeated)[i], value |-> 1]]
    \o [i \in 1..bare |-> [value |-> 0]]

GeneratedTransactions ==
    { [hash |-> "generated", inputs |-> InputsOf(nin, rin, bin),
       out |-> OutputsOf(nout, rout, bout)] :
        nin \in 0..MaxIn, rin \in 0..MaxRepeat, bin \in 0..MaxBare,
        nout \in 0..MaxOut, rout \in 0..MaxRepeat, bout \in 0..MaxBare }

AnalyzePattern ==
    /\ ret = None
    /\ ret' = analyze_transaction_pattern(arg)
    /\ UNCHANGED <<rate, program, btc_threshold, eth_threshold, btc_price, eth_price,
                   webhook_url, seen_transactions, pc, cycle, src, scan, results,
                   sent, ncalls, calls, posts, logged, delivered, arg>>

InitPattern ==
    /\ NoRequests
    /\ program = "pattern"
    /\ btc_threshold = BtcThresholdDefault
    /\ eth_threshold = EthThresholdDefault
    /\ btc_price = 0
    /\ eth_price = 0
    /\ webhook_url = ""
    /\ seen_transactions = {}
    /\ pc = "call"
    /\ cycle = 1
    /\ src = 1
    /\ scan = NoScan
    /\ results = <<>>
    /\ sent = 0
    /\ ncalls = 0
    /\ calls = [i \in 1..MaxCalls |-> Idle]
    /\ posts = <<>>
    /\ logged = <<>>
    /\ delivered = <<>>
    /\ arg \in GeneratedTransactions
    /\ ret = None

NextPattern == AnalyzePattern

SpecPattern == InitPattern /\ [][NextPattern]_vars

---------------------------------------------------------------------------
(* Properties of the deduplication (WhaleAlert.send_alert)                 *)

Fingerprints == {AlertId(whale_data) : whale_data \in LibEvents}

(* the POSTs made for a fingerprint, and the calls awaiting their POST *)
PostsOf(alert_id) == {i \in DOMAIN posts : posts[i].alert_id = alert_id}

InFlight(alert_id) ==
    {i \in DOMAIN calls : calls[i].pc = "post"
                          /\ AlertId(calls[i].whale_data) = alert_id}

LoggedOf(alert_id) == {i \in DOMAIN logged : logged[i].alert_id = alert_id}

(* the alerts a fingerprint has caused: POSTs made or under way *)
AlertsOf(alert_id) == Cardinality(PostsOf(alert_id)) + Cardinality(InFlight(alert_id))

(* the alerts emitted for a fingerprint through either outlet, the webhook *)
(* or the log                                                              *)
EmissionsOf(alert_id) == AlertsOf(alert_id) + Cardinality(LoggedOf(alert_id))

(* C1: once a fingerprint is in seen_transactions, no later send_alert     *)
(* call on the instance starts an alert for it: in every step, the alerts  *)
(* of every fingerprint already seen do not increase.                      *)
C1_SeenNeverAlertsAgain ==
    [][\A alert_id \in seen_transactions : AlertsOf(alert_id)' <= AlertsOf(alert_id)]_vars

(* two calls were made, one fingerprint is seen, one POST was made: the    *)
(* second call carried the seen fingerprint and was suppressed             *)
C1_Witness ==
    /\ webhook_url # ""
    /\ ncalls = 2
    /\ Cardinality(seen_transactions) = 1
    /\ Len(posts) = 1
    /\ \A i \in DOMAIN calls : calls[i].pc = "idle"

(* C3 as stated: with or without a webhook, an event is emitted by the     *)
(* first call only, and its fingerprint is in seen_transactions exactly    *)
(* when a call emitted it.                                                 *)
C3_Original ==
    \A alert_id \in Fingerprints :
        /\ EmissionsOf(alert_id) <= 1
        /\ (alert_id \in seen_transactions) <=> (EmissionsOf(alert_id) = 1)

(* C5: seen_transactions is empty when the WhaleAlert is created, and no   *)
(* step removes a fingerprint from it.                                     *)
C5_SeenOnlyGrows ==
    /\ seen_transactions = {}
    /\ [][seen_transactions \subseteq seen_transactions']_vars

(* a second fingerprint was added to a non-empty set *)
C5_Witness ==
    /\ Cardinality(seen_transactions) >= 2
    /\ ncalls >= 2

(* C6: of the send_alert invocations in flight for one fingerprint at most *)
(* one posts: over the POSTs made and those under way, a fingerprint       *)
(* occurs at most once, and a POST under way has its fingerprint marked.   *)
C6_AtMostOnePost ==
    \A alert_id \in Fingerprints :
        /\ AlertsOf(alert_id) <= 1
        /\ (InFlight(alert_id) # {}) => (alert_id \in seen_transactions)

(* a second invocation ran while the first awaited its POST, with the same *)
(* fingerprint, and did not post                                           *)
C6_Witness ==
    /\ webhook_url # ""
    /\ ncalls = 2
    /\ Cardinality(seen_transactions) = 1
    /\ posts = <<>>
    /\ Cardinality({i \in DOMAIN calls : calls[i].pc = "post"}) = 1

---------------------------------------------------------------------------
(* Properties of the polling loops                                         *)

OnChainHashes == {TxWhale.hash, TxSmall.hash, EthWhale.hash}

(* the POSTs the webhook accepted for a transaction *)
AcceptedPostsOfHash(hash) ==
    {i \in DOMAIN posts : posts[i].hash = hash /\ posts[i].status = HttpNoContent}

(* C2 as stated: a transaction observed in several polling cycles is       *)
(* posted at most once, whatever the price of the later cycle.             *)
C2_Original ==
    \A hash \in OnChainHashes : Cardinality(AcceptedPostsOfHash(hash)) <= 1

(* C4 as stated: no loop delivers to the channel an event whose            *)
(* fingerprint it delivered in an earlier cycle.                           *)
C4_Original ==
    \A i, j \in DOMAIN delivered :
        (delivered[i].alert_id = delivered[j].alert_id)
            => (delivered[i].cycle = delivered[j].cycle)

---------------------------------------------------------------------------
(* Properties of the threshold filter                                      *)

AssetOf(source) ==
    IF source.kind \in {"block", "mempool"} THEN "BTC"
    ELSE IF source.kind = "eth" THEN "ETH"
    ELSE IF source.symbol \in {"BTC-USD", "BTCUSD", "btcusd", "BTCUSDT"} THEN "BTC"
    ELSE "ETH"

ThresholdOf(asset) == IF asset = "BTC" THEN btc_threshold ELSE eth_threshold

RECURSIVE EthBatchTransactions(_)
EthBatchTransactions(blocks) ==
    IF blocks = <<>> THEN <<>>
    ELSE Head(blocks).result.transactions \o EthBatchTransactions(Tail(blocks))

(* every raw record of a batch *)
BatchRecords(source, raw) ==
    IF IsUnavailable(raw) THEN <<>>
    ELSE IF source.kind = "block" THEN raw.block_data.tx
    ELSE IF source.kind = "mempool" THEN raw.txs
    ELSE IF source.kind = "eth" THEN EthBatchTransactions(raw.blocks)
    ELSE IF source.kind = "kraken"
    THEN IF raw.error # <<>> THEN <<>>
         ELSE raw.result[1].bids \o raw.result[1].asks
    ELSE raw.bids \o raw.asks

IsZeroValue(record) == ~Has(record, "value") \/ record.value \in {"", "0x0"}

(* the records a monitor examines: the first 50 of the mempool batch, the  *)
(* Ethereum transactions that carry a value                                *)
ScannedRecords(source, raw) ==
    LET records == BatchRecords(source, raw)
    IN  IF source.kind = "mempool"
        THEN SubSeq(records, 1, IF Len(records) < 50 THEN Len(records) ELSE 50)
        ELSE IF source.kind = "eth"
        THEN LET HasValue(record) == ~IsZeroValue(record)
             IN  SelectSeq(records, HasValue)
        ELSE records

(* a record has a USD value when its amount can be read *)
RecordValued(source, record) ==
    IF source.kind \in {"block", "mempool"} THEN TRUE
    ELSE IF source.kind = "eth"
    THEN Has(record, "value") /\ record.value \in DOMAIN EthAmountOfHex
    ELSE LevelWellFormed(source.kind, record)

(* native amount times the current price, in dollars *)
RecordUsd(source, record) ==
    IF source.kind \in {"block", "mempool"}
    THEN ((TotalOutput(record) \div 1000000) * btc_price) \div 100
    ELSE IF source.kind = "eth"
    THEN (EthAmountOfHex[record.value] * eth_price) \div 100
    ELSE LevelPrice(source.kind, record) * LevelQuantity(source.kind, record)

RecordQualifies(source, record) ==
    /\ RecordValued(source, record)
    /\ RecordUsd(source, record) >= ThresholdOf(AssetOf(source))

RecordComplete(source, record) ==
    IF source.kind \in {"block", "mempool"} THEN Has(record, "hash")
    ELSE IF source.kind = "eth"
    THEN Has(record, "hash") /\ Has(record, "from") /\ Has(record, "to")
    ELSE TRUE

RecordEmitted(source, record, events) ==
    /\ RecordValued(source, record)
    /\ \E i \in DOMAIN events :
          /\ events[i].usd_value = RecordUsd(source, record)
          /\ IF source.kind \in {"block", "mempool", "eth"}
             THEN Has(record, "hash") /\ events[i].hash = record.hash
             ELSE /\ events[i].price = LevelPrice(source.kind, record)
                  /\ events[i].quantity = LevelQuantity(source.kind, record)

(* the scan raises and the monitor returns nothing: a qualifying record    *)
(* lacks a field of its event, or a level cannot be read                   *)
ScanRaises(source, raw) ==
    LET records == ScannedRecords(source, raw)
    IN  \E i \in DOMAIN records :
           \/ ~RecordValued(source, records[i])
           \/ RecordQualifies(source, records[i]) /\ ~RecordComplete(source, records[i])

C8_Original ==
    [][/\ (btc_threshold' < 0) => (btc_threshold' = btc_threshold)
       /\ (eth_threshold' < 0) => (eth_threshold' = eth_threshold)]_vars

ThresholdUpdated ==
    btc_threshold # BtcThresholdDefault \/ eth_threshold # EthThresholdDefault

(* C9: once whale_config has changed a threshold, a scan made afterwards   *)
(* decides every record by the thresholds as they now are; and a           *)
(* whale_config call that gives one threshold leaves the other as it was.  *)
C9_UpdateTakesEffect ==
    /\ [](( ThresholdUpdated /\ scan # NoScan /\ ~ScanRaises(scan.source, scan.raw)) =>
            LET records == ScannedRecords(scan.source, scan.raw)
            IN  \A i \in DOMAIN records :
                   RecordEmitted(scan.source, records[i], scan.events)
                      <=> (RecordUsd(scan.source, records[i])
                              >= ThresholdOf(AssetOf(scan.source))))
    /\ [][\A v \in ConfigValues :
             /\ WhaleConfig(Given(v), NotGiven)
                   => (btc_threshold' = v /\ eth_threshold' = eth_threshold)
             /\ WhaleConfig(NotGiven, Given(v))
                   => (eth_threshold' = v /\ btc_threshold' = btc_threshold)]_vars

(* the BTC threshold was lowered to 50,000 and the next order-book scan    *)
(* reports a BTC order below the former threshold; the ETH threshold is    *)
(* as constructed                                                          *)
C9_Witness ==
    /\ btc_threshold = 50000
    /\ eth_threshold = EthThresholdDefault
    /\ scan.source.kind = "coinbase_pro"
    /\ scan.source.symbol = "BTC-USD"
    /\ \E i \in DOMAIN scan.events :
          /\ scan.events[i].usd_value < BtcThresholdDefault
          /\ scan.events[i].usd_value >= btc_threshold

---------------------------------------------------------------------------
(* Properties of the pattern analysis                                      *)

InputAddresses ==
    {arg.inputs[i].prev_out.addr :
        i \in {j \in DOMAIN arg.inputs :
                  Has(arg.inputs[j], "prev_out") /\ Has(arg.inputs[j].prev_out, "addr")}}

OutputAddresses ==
    {arg.out[i].addr : i \in {j \in DOMAIN arg.out : Has(arg.out[j], "addr")}}

FirstMatchingLabel(nin, nout) ==
    IF nin = 1 /\ nout = 1 THEN "simple_transfer"
    ELSE IF nin = 1 /\ nout = 2 THEN "wallet_transfer"
    ELSE IF nin > 5 /\ nout = 1 THEN "consolidation"
    ELSE IF nin = 1 /\ nout > 10 THEN "distribution"
    ELSE IF nin > 1 /\ nout > 1 THEN "complex_transaction"
    ELSE "standard_transaction"

(* C10: for a transaction whose sets of distinct input and output          *)
(* addresses are both non-empty, analyze_transaction_pattern returns the   *)
(* first matching label of the rule list, on the sizes of the sets.        *)
C10_PatternRules ==
    (ret # None /\ InputAddresses # {} /\ OutputAddresses # {}) =>
        ret = FirstMatchingLabel(Cardinality(InputAddresses),
                                 Cardinality(OutputAddresses))

(* inputs {addr1}, outputs {addr1, addr2}, each address listed more than   *)
(* once, classified wallet_transfer                                        *)
C10_Witness ==
    /\ ret = "wallet_transfer"
    /\ Len(arg.inputs) > 1
    /\ Len(arg.out) > 2
    /\ InputAddresses = {Addr(1)}
    /\ OutputAddresses = {Addr(1), Addr(2)}

(* C11 as stated: when the set of input addresses or the set of output     *)
(* addresses is empty, whether or not the list is, the pattern is          *)
(* 'unknown'.                                                              *)
C11_Original ==
    (ret # None /\ (InputAddresses = {} \/ OutputAddresses = {})) => ret = "unknown"

(* a transaction of nin input and nout output addresses with other address *)
(* strings, other values, another timestamp and no address-less entry      *)
TransactionOfSizes(nin, nout) ==
    [hash   |-> "other",
     inputs |-> [i \in 1..nin |-> [prev_out |-> [addr |-> "other" \o ToString(i),
                                                 value |-> 1000 * i]]],
     out    |-> [i \in 1..nout |-> [addr |-> "other" \o ToString(i), value |-> 2000 * i]],
     time   |-> 1700000000]

(* C12 as stated: two transactions whose address sets have the same sizes  *)
(* get the same pattern: the pattern of the transaction analysed is the    *)
(* pattern of the plain transaction of the same sizes.                     *)
C12_Original ==
    ret # None =>
        ret = analyze_transaction_pattern(
                  TransactionOfSizes(Cardinality(InputAddresses),
                                     Cardinality(OutputAddresses)))

---------------------------------------------------------------------------
(* classify_address on drawn addresses, under the mixing-service table as  *)
(* shipped and under tables with a service added to it                     *)

MixingTables ==
    { MixingServices,
      MixingServices \o << [pattern |-> "bmex", name |-> "Bmex Tumbler"] >>,
      MixingServices \o << [pattern |-> "ChipMixer", name |-> "ChipMixer"] >>,
      << [pattern |-> "mixer", name |-> "Tumbler"] >> \o MixingServices }

Addresses ==
    { "", None,
      "3M219KBk7ZjsPUe7UpzPcTg1z5y7R25Acz",
      "3BMEXhash77KHeEqgQkZTBC5m4D7dTwq6J",
      "bc1qgdjqv0av3q56jvd82tkdjpy7gdp9ut8tlqmgrpmv24sq90ecnvqqjwvw97",
      "bc1qar0srrr7xfkvy5l643lydnw9re59gtzzwf5mdq",
      "34xp4vRoCGJym3xR7yCVPFHoCNxv4Twseo",
      "1mixerQ2x9yTf4",
      "1MiXeR7Hq2LpZ",
      "bc1q1mixer0srrr7xfkvy5l643lydnw9re59gtzzwf",
      "3ChipMixerAbc9Xy",
      "1chipmixerxyz42",
      "3bmexQ9d4Lw",
      WalletLegacy,
      WalletBech32,
      "bc1qrp33g0q5c5txsp9arysrx4k6zdkfs4nce4xj0gdcccefvpysxf3qccfmv3",
      "bc1qqpzry9x8gf2tvdw0s3jn54khce6mua7lqpzry9x8gf2tvd",
      "bc1qqpzry9x8gf2tvdw0s3jn54khce6mua7lqpzry9x8gf2tvdw",
      "3J98t1WpEZ73CNmQviecrnyiWrnqRhWNLy",
      "bc1p5cyxnuxmeuwuvkwfem96lqzszd02n6xdcjrs20cac6yqjjwudpxqkedrcr",
      "BC1QW508D6QEJXTDG4Y5R3ZARVARY0C5XW7KV8F3T4",
      "0x5df9b87991262f6ba471f09758cde1c0fc1de734",
      "2N2JD6wb56AfK4tfmM6PwdVmoYk2dCKf4Br" }

ClassifyCall ==
    /\ pc = "call"
    /\ pc' = "done"
    /\ ret' = classify_with(arg.mixing_services, arg.address)
    /\ UNCHANGED <<rate, program, btc_threshold, eth_threshold, btc_price, eth_price,
                   webhook_url, seen_transactions, cycle, src, scan, results, sent,
                   ncalls, calls, posts, logged, delivered, arg>>

InitClassify ==
    /\ NoRequests
    /\ program = "classify"
    /\ btc_threshold = BtcThresholdDefault
    /\ eth_threshold = EthThresholdDefault
    /\ btc_price = 0
    /\ eth_price = 0
    /\ webhook_url = ""
    /\ seen_transactions = {}
    /\ pc = "call"
    /\ cycle = 1
    /\ src = 1
    /\ scan = NoScan
    /\ results = <<>>
    /\ sent = 0
    /\ ncalls = 0
    /\ calls = [i \in 1..MaxCalls |-> Idle]
    /\ posts = <<>>
    /\ logged = <<>>
    /\ delivered = <<>>
    /\ arg \in [mixing_services : MixingTables, address : Addresses]
    /\ ret = None

NextClassify == ClassifyCall

SpecClassify == InitClassify /\ [][NextClassify]_vars

---------------------------------------------------------------------------
(* Claims about classify_address                                           *)

Classified == program = "classify" /\ pc = "done"

(* the services of the table whose pattern the address contains when both  *)
(* are compared in lower case                                              *)
ServicesContained(mixing_services, address) ==
    {i \in DOMAIN mixing_services :
        Contains(Lower(address), Lower(mixing_services[i].pattern))}

HasAddress == arg.address # "" /\ arg.address # None

(* C13: an address that is a key of the exchange directory is classified   *)
(* ('exchange', the directory's name), whatever mixing-service substring   *)
(* it contains and whatever its prefix.                                    *)
C13_DirectoryFirst ==
    (Classified /\ arg.address \in DOMAIN KnownExchanges)
        => ret = <<"exchange", KnownExchanges[arg.address]>>

(* a directory key with prefix '3' that contains a configured              *)
(* mixing-service pattern has been classified an exchange                  *)
C13_Witness ==
    /\ Classified
    /\ arg.address \in DOMAIN KnownExchanges
    /\ StartsWith(arg.address, "3")
    /\ ServicesContained(arg.mixing_services, arg.address) # {}
    /\ ret[1] = "exchange"

(* C14: an address outside the exchange directory that contains a          *)
(* configured mixing-service pattern, compared without regard to the       *)
(* letter case of either, is classified ('mixer', name of a service whose  *)
(* pattern it contains).                                                   *)
C14_Original ==
    (/\ Classified
     /\ HasAddress
     /\ arg.address \notin DOMAIN KnownExchanges
     /\ ServicesContained(arg.mixing_services, arg.address) # {})
        => \E i \in ServicesContained(arg.mixing_services, arg.address) :
               ret = <<"mixer", arg.mixing_services[i].name>>

(* the label the prefix and length of an address stand for *)
HeuristicLabel(address) ==
    IF address = "" \/ address = None THEN <<"unknown", "Unknown">>
    ELSE IF StartsWith(address, "bc1q") /\ Len(address) > 50
         THEN <<"wallet", "Cold Storage (Bech32)">>
    ELSE IF StartsWith(address, "bc1q") /\ Len(address) <= 50
         THEN <<"wallet", "Personal Wallet (Bech32)">>
    ELSE IF StartsWith(address, "3") THEN <<"wallet", "Multi-sig Wallet">>
    ELSE IF StartsWith(address, "1") THEN <<"wallet", "Legacy Wallet">>
    ELSE <<"unknown", "Unknown Address Type">>

(* C15: an address that is neither a key of the exchange directory nor     *)
(* contains a mixing-service pattern is classified by the heuristics:      *)
(* empty or missing -> unknown/Unknown; 'bc1q' longer than 50 -> Cold      *)
(* Storage; 'bc1q' of at most 50 -> Personal Wallet; '3' -> Multi-sig;     *)
(* '1' -> Legacy; anything else -> unknown/Unknown Address Type.           *)
C15_Heuristics ==
    (/\ Classified
     /\ arg.address \notin DOMAIN KnownExchanges
     /\ (HasAddress => ServicesContained(arg.mixing_services, arg.address) = {}))
        => ret = HeuristicLabel(arg.address)

(* a 'bc1q' address of exactly 50 characters has been classified a         *)
(* personal wallet                                                         *)
C15_Witness ==
    /\ Classified
    /\ StartsWith(arg.address, "bc1q")
    /\ Len(arg.address) = 50
    /\ ret = <<"wallet", "Personal Wallet (Bech32)">>

---------------------------------------------------------------------------
(* Claims about the classified addresses and the type of an event          *)

HeuristicLabels ==
    {"Unknown", "Cold Storage (Bech32)", "Personal Wallet (Bech32)",
     "Multi-sig Wallet", "Legacy Wallet", "Unknown Address Type"}

ExchangeNames == {KnownExchanges[a] : a \in DOMAIN KnownExchanges}

MixerNames == {MixingServices[i].name : i \in DOMAIN MixingServices}

(* the classified addresses an event carries *)
ClassifiedOf(event) ==
    IF Has(event, "from_addresses")
    THEN Range(event.from_addresses)
         \cup {[address |-> a.address, type |-> a.type, entity |-> a.entity] :
                  a \in Range(event.to_addresses)}
    ELSE {}

WellClassified(a) ==
    /\ a.type \in {"exchange", "mixer", "wallet", "unknown"}
    /\ a.type = "exchange" => a.entity \in ExchangeNames
    /\ a.type = "mixer" => a.entity \in MixerNames
    /\ a.type \in {"wallet", "unknown"} =>
          a.entity \in HeuristicLabels /\ a.address \notin DOMAIN KnownExchanges

(* C16: every classified address of every emitted event has, for category  *)
(* exchange or mixer, an entity that is a name of the known-entity tables  *)
(* and, for category wallet or unknown, an entity that is a heuristic      *)
(* label and an address that is not a key of the exchange directory.       *)
C16_ClassifiedAddresses ==
    \A i \in DOMAIN scan.events :
        \A a \in ClassifiedOf(scan.events[i]) : WellClassified(a)

(* an emitted event carries a mixer, an address of unknown category, an    *)
(* exchange and a wallet                                                   *)
C16_Witness ==
    \E i \in DOMAIN scan.events :
        {a.type : a \in ClassifiedOf(scan.events[i])}
            = {"exchange", "mixer", "wallet", "unknown"}

---------------------------------------------------------------------------
(* _determine_transaction_type on drawn lists of classified addresses      *)

MaxSide == 2

Categories == {"exchange", "wallet", "mixer", "unknown"}

Patterns ==
    {"unknown", "simple_transfer", "wallet_transfer", "consolidation",
     "distribution", "complex_transaction", "standard_transaction"}

(* an address of each category, as classify_address classifies it *)
ClassifiedAs(category) ==
    LET address == IF category = "exchange" THEN CoinbaseAddr
                   ELSE IF category = "wallet" THEN WalletLegacy
                   ELSE IF category = "mixer" THEN MixerAddr
                   ELSE TaprootAddr(0)
    IN  [address |-> address,
         type    |-> classify_address(address)[1],
         entity  |-> classify_address(address)[2]]

ClassifiedLists ==
    UNION {[1..n -> {ClassifiedAs(c) : c \in Categories}] : n \in 0..MaxSide}

DetermineType ==
    /\ pc = "call"
    /\ pc' = "done"
    /\ ret' = determine_transaction_type(arg.from_addresses, arg.to_addresses,
                                         arg.pattern)
    /\ UNCHANGED <<rate, program, btc_threshold, eth_threshold, btc_price, eth_price,
                   webhook_url, seen_transactions, cycle, src, scan, results, sent,
                   ncalls, calls, posts, logged, delivered, arg>>

InitType ==
    /\ NoRequests
    /\ program = "type"
    /\ btc_threshold = BtcThresholdDefault
    /\ eth_threshold = EthThresholdDefault
    /\ btc_price = 0
    /\ eth_price = 0
    /\ webhook_url = ""
    /\ seen_transactions = {}
    /\ pc = "call"
    /\ cycle = 1
    /\ src = 1
    /\ scan = NoScan
    /\ results = <<>>
    /\ sent = 0
    /\ ncalls = 0
    /\ calls = [i \in 1..MaxCalls |-> Idle]
    /\ posts = <<>>
    /\ logged = <<>>
    /\ delivered = <<>>
    /\ arg \in [from_addresses : ClassifiedLists, to_addresses : ClassifiedLists,
                pattern : Patterns]
    /\ ret = None

NextType == DetermineType

SpecType == InitType /\ [][NextType]_vars

(* the categories present on a side *)
CategoriesOf(addresses) == {c \in Categories : \E i \in DOMAIN addresses : addresses[i].type = c}

ByPattern(pattern, consolidation, distribution, otherwise) ==
    IF pattern = "consolidation" THEN consolidation
    ELSE IF pattern = "distribution" THEN distribution
    ELSE otherwise

(* the rules of the transaction type, in their order of priority *)
TypeRules(from, to, pattern) ==
    << [when  |-> from = <<>> \/ to = <<>>,
        label |-> "unknown_transfer"],
       [when  |-> "exchange" \in CategoriesOf(from) /\ "wallet" \in CategoriesOf(to),
        label |-> "exchange_withdrawal"],
       [when  |-> "wallet" \in CategoriesOf(from) /\ "exchange" \in CategoriesOf(to),
        label |-> "exchange_deposit"],
       [when  |-> "exchange" \in CategoriesOf(from) /\ "exchange" \in CategoriesOf(to),
        label |-> "exchange_transfer"],
       [when  |-> /\ \A i \in DOMAIN from : from[i].type = "wallet"
                  /\ \A i \in DOMAIN to : to[i].type = "wallet",
        label |-> ByPattern(pattern, "wallet_consolidation", "wallet_distribution",
                            "wallet_transfer")],
       [when  |-> "mixer" \in CategoriesOf(from) \/ "mixer" \in CategoriesOf(to),
        label |-> "privacy_transaction"],
       [when  |-> TRUE,
        label |-> ByPattern(pattern, "funds_consolidation", "funds_distribution",
                            "large_transfer")] >>

FirstRule(rules) == CHOOSE i \in DOMAIN rules : rules[i].when /\ \A j \in 1..(i - 1) : ~rules[j].when

TypeDetermined == program = "type" /\ pc = "done"

(* C17: _determine_transaction_type returns the label of the first rule    *)
(* that matches, in the order: a side empty; exchange to wallet; wallet to *)
(* exchange; exchange on both sides; only wallets; a mixer on either side; *)
(* otherwise by pattern.  The exchange_withdrawal and exchange_deposit     *)
(* rules win over the mixer rule when a mixer address is present too.      *)
C17_RuleOrder ==
    TypeDetermined =>
        LET rules == TypeRules(arg.from_addresses, arg.to_addresses, arg.pattern)
            mixer == "mixer" \in CategoriesOf(arg.from_addresses)
                                    \cup CategoriesOf(arg.to_addresses)
        IN  /\ ret = rules[FirstRule(rules)].label
            /\ (mixer /\ rules[2].when) => ret = "exchange_withdrawal"
            /\ (mixer /\ ~rules[2].when /\ rules[3].when) => ret = "exchange_deposit"

(* a wallet and a mixer on the from side, an exchange on the to side: the  *)
(* type is exchange_deposit                                                *)
C17_Witness ==
    /\ TypeDetermined
    /\ CategoriesOf(arg.from_addresses) = {"wallet", "mixer"}
    /\ CategoriesOf(arg.to_addresses) = {"exchange"}
    /\ ret = "exchange_deposit"

(* the transactions of the scanned batch that an event reports *)
TransactionsOf(event) ==
    LET records == ScannedRecords(scan.source, scan.raw)
    IN  {records[i] : i \in {j \in DOMAIN records :
                                /\ Has(records[j], "hash")
                                /\ records[j].hash = event.hash}}

(* eight distinct input addresses and one output address, an exchange of   *)
(* the directory                                                           *)
GathersToExchange(tx) ==
    /\ Cardinality(InputAddressSet(tx)) = 8
    /\ Cardinality(OutputAddressSet(tx)) = 1
    /\ OutputAddressSet(tx) \subseteq DOMAIN KnownExchanges

IsFundsConsolidation(event) ==
    event.pattern = "consolidation" /\ event.transaction_type = "funds_consolidation"

BitcoinEvents ==
    IF scan.source.kind \in {"block", "mempool"} THEN Range(scan.events) ELSE {}

(* C18: for a qualifying transaction with 8 distinct input addresses that  *)
(* all classify as 'unknown' (no directory key, no mixing-service pattern, *)
(* no wallet prefix) and a single output address that is a directory       *)
(* exchange, the emitted event has pattern consolidation and               *)
(* transaction_type funds_consolidation.                                   *)
C18_UnknownInputs ==
    \A event \in BitcoinEvents : \A tx \in TransactionsOf(event) :
        (/\ GathersToExchange(tx)
         /\ \A a \in InputAddressSet(tx) : classify_address(a)[1] = "unknown")
            => IsFundsConsolidation(event)

(* the event of the transaction from eight addresses of unknown shape is a *)
(* funds_consolidation                                                     *)
C18_Witness ==
    \E event \in BitcoinEvents :
        /\ event.hash = TxFromUnknown.hash
        /\ event.total_inputs = 8
        /\ IsFundsConsolidation(event)

(* C18 as stated: for a qualifying transaction with 8 distinct input       *)
(* addresses, none a key of the exchange directory, and a single output    *)
(* address that is a directory exchange, the emitted event has pattern     *)
(* consolidation and transaction_type funds_consolidation.                 *)
C18_Original ==
    \A event \in BitcoinEvents : \A tx \in TransactionsOf(event) :
        (/\ GathersToExchange(tx)
         /\ InputAddressSet(tx) \cap DOMAIN KnownExchanges = {})
            => IsFundsConsolidation(event)

---------------------------------------------------------------------------
(* One gather of transactions.main (lines 754-773), from the state after a *)
(* price update, with the alert system as line 739 constructs it.  arg is  *)
(* what the upstream answered each source, ret is what the gather returned *)

(* an error payload of Kraken that carries levels all the same *)
KrakenBusy(symbol) ==
    [error  |-> <<"EService:Busy">>,
     result |-> BookOfSymbol("kraken", symbol).result]

(* a request that raises what the monitor does not catch *)
TimedOut == Raised("TimeoutError")

(* what the upstream may answer each source of the gather *)
GatherAnswers(source) ==
    LoopBatches(source) \cup
    IF source.kind = "block" THEN {BlockOf(<<TxWhale, TxNoHash>>), TimedOut}
    ELSE IF source.kind = "mempool" THEN {Unavailable}
    ELSE IF source.kind = "eth" THEN {TimedOut}
    ELSE IF source.kind = "kraken"
    THEN IF source.symbol = "BTCUSD" THEN {KrakenBusy(source.symbol), TimedOut}
         ELSE {KrakenBusy(source.symbol)}
    ELSE IF source.kind = "coinbase_pro"
    THEN IF source.symbol = "BTC-USD"
         THEN {BookData(source.kind, <<LevelOf(source.kind, "70000.00", "20")>>,
                                     <<ShortLevel(source.kind)>>)}
         ELSE {Unavailable}
    ELSE IF source.symbol = "btcusd" THEN {TimedOut} ELSE {Unavailable}

(* the result of a source's coroutine: the list the monitor returns, or    *)
(* the exception it lets through                                           *)
Coroutine(source, answer) ==
    IF Has(answer, "raises") THEN answer
    ELSE [list |-> ScanSource(source, answer)]

(* a gather without return_exceptions: the first exception is raised out   *)
(* of the loop                                                             *)
GatherRaising(gathered) ==
    IF \E i \in DOMAIN gathered : Has(gathered[i], "raises") THEN "stopped" ELSE "alert"

(* asyncio.gather(..., return_exceptions=True): exceptions are results,    *)
(* the loop goes on to the alerts                                          *)
GatherThen(gathered) == "alert"

(* for result in results: if isinstance(result, list): for whale_activity  *)
(* in result                                                               *)
RECURSIVE ListedEvents(_)
ListedEvents(gathered) ==
    IF gathered = <<>> THEN <<>>
    ELSE (IF Has(Head(gathered), "list") THEN Head(gathered).list ELSE <<>>)
         \o ListedEvents(Tail(gathered))

(* the coroutine of the next source completes with the given answer *)
GatherStep(answer) ==
    /\ arg' = Append(IF src = 1 THEN <<>> ELSE arg, answer)
    /\ ret' = Append(IF src = 1 THEN <<>> ELSE ret, Coroutine(MainSources[src], answer))
    /\ src' = src + 1
    /\ pc' = IF src = Len(MainSources) THEN GatherThen(ret') ELSE "fetch"
    /\ results' = IF src = Len(MainSources) THEN ListedEvents(ret') ELSE results
    /\ UNCHANGED <<rate, program, btc_threshold, eth_threshold, btc_price, eth_price,
                   webhook_url, seen_transactions, cycle, scan, sent, ncalls, calls,
                   posts, logged, delivered>>

GatherSource ==
    /\ program = "main"
    /\ pc = "fetch"
    /\ src <= Len(MainSources)
    /\ \E answer \in GatherAnswers(MainSources[src]) : GatherStep(answer)

InitGather ==
    /\ NoRequests
    /\ program = "main"
    /\ btc_threshold = BtcThresholdDefault
    /\ eth_threshold = EthThresholdDefault
    /\ btc_price \in BtcPrices
    /\ eth_price \in EthPrices
    /\ webhook_url = ""
    /\ seen_transactions = {}
    /\ pc = "fetch"
    /\ cycle = 1
    /\ src = 1
    /\ scan = NoScan
    /\ results = <<>>
    /\ sent = 0
    /\ ncalls = 0
    /\ calls = [i \in 1..MaxCalls |-> Idle]
    /\ posts = <<>>
    /\ logged = <<>>
    /\ delivered = <<>>
    /\ arg = <<>>
    /\ ret = <<>>

NextGather ==
    \/ GatherSource
    \/ MainAlert

SpecGather == InitGather /\ [][NextGather]_vars

---------------------------------------------------------------------------
(* Claims about malformed records and failed sources                       *)

(* C19 as stated: a malformed record of a batch (a transaction without     *)
(* 'hash', a level with the wrong number of fields or without 'price' or   *)
(* 'amount') is the only record skipped: every well-formed qualifying      *)
(* record the monitor examines, before or after it, produces its event.    *)
C19_Original ==
    scan # NoScan =>
        LET records == ScannedRecords(scan.source, scan.raw)
        IN  \A i \in DOMAIN records :
               (/\ RecordQualifies(scan.source, records[i])
                /\ RecordComplete(scan.source, records[i]))
                   => RecordEmitted(scan.source, records[i], scan.events)

(* a source failed: the request raised, the transport failed, Kraken      *)
(* answered an error payload, or the batch lacks a key the monitor reads   *)
SourceFailed(source, answer) ==
    \/ Has(answer, "raises")
    \/ IsUnavailable(answer)
    \/ source.kind = "kraken" /\ Get(answer, "error", <<>>) # <<>>
    \/ ScanRaises(source, answer)

Gathered == program = "main" /\ Len(arg) = Len(MainSources)

FailedSources == {i \in DOMAIN arg : SourceFailed(MainSources[i], arg[i])}

(* the events of the sources that did not fail, in the order of the gather *)
RECURSIVE EventsFrom(_)
EventsFrom(i) ==
    IF i > Len(arg) THEN <<>>
    ELSE (IF i \in FailedSources THEN <<>> ELSE ScanSource(MainSources[i], arg[i]))
         \o EventsFrom(i + 1)

AlertRecords(events) == [k \in DOMAIN events |-> AlertRecord(events[k])]

---------------------------------------------------------------------------
(* format_alert_message on the events the builders produce and on events   *)
(* with another variant tag or none                                        *)

(* 200 ETH to no address: the creation of a contract ('to' is null) *)
EthCreation ==
    [hash  |-> "0x2f1c5c2b44f771e942a8506148e256f94f1a464babc938ae0690c6e34cd79190",
     value |-> "0xad78ebc5ac6200000",
     from  |-> "0xa1e4380a3b1f749673e270229993ee55f35663b4",
     to    |-> None]

BuiltTransactions == {TxWhale, TxSmall, TxMixed, TxFromUnknown, TxFromWallets}

BuiltEvents ==
    {BitcoinTransferEvent(tx, price, 800000) : tx \in BuiltTransactions, price \in BtcPrices}
    \cup {BitcoinPendingEvent(tx, price) : tx \in BuiltTransactions, price \in BtcPrices}
    \cup {EthTransferEvent(tx, block_num) :
             tx \in {EthWhale, EthSmall, EthCreation}, block_num \in {18000000, 17999999}}
    \cup {OrderEvent(source.kind, source.symbol, side,
                     LevelOf(source.kind, price, "20")) :
             source \in ScanSources \ {OnChain("block"), OnChain("mempool"), OnChain("eth")},
             side \in {"buy", "sell"}, price \in {"70000.00", "2500.00"}}

OtherEvents ==
    { [type |-> "nft_transfer", usd_value |-> 2000000],
      [type |-> "nft_transfer", hash |-> TxWhale.hash],
      [usd_value |-> 2000000],
      [hash |-> TxWhale.hash, usd_value |-> 1000000] }

FormatCall ==
    /\ pc = "call"
    /\ pc' = "done"
    /\ ret' = format_alert_message(arg)
    /\ UNCHANGED <<rate, program, btc_threshold, eth_threshold, btc_price, eth_price,
                   webhook_url, seen_transactions, cycle, src, scan, results, sent,
                   ncalls, calls, posts, logged, delivered, arg>>

InitFormat ==
    /\ NoRequests
    /\ program = "format"
    /\ btc_threshold = BtcThresholdDefault
    /\ eth_threshold = EthThresholdDefault
    /\ btc_price \in BtcPrices
    /\ eth_price \in EthPrices
    /\ webhook_url = ""
    /\ seen_transactions = {}
    /\ pc = "call"
    /\ cycle = 1
    /\ src = 1
    /\ scan = NoScan
    /\ results = <<>>
    /\ sent = 0
    /\ ncalls = 0
    /\ calls = [i \in 1..MaxCalls |-> Idle]
    /\ posts = <<>>
    /\ logged = <<>>
    /\ delivered = <<>>
    /\ arg \in BuiltEvents \cup OtherEvents
    /\ ret = None

NextFormat == FormatCall

SpecFormat == InitFormat /\ [][NextFormat]_vars

Formatted == program = "format" /\ pc = "done"

(* C22 as stated: format_alert_message returns a message and never raises, *)
(* for every event the monitors produce and for every event with an        *)
(* unrecognized or absent variant tag.                                     *)
C22_Original ==
    Formatted => Has(ret, "text")

(* C26 as stated: an on-chain transfer event, confirmed or pending, is     *)
(* rendered with its native amount, its USD value and its hash; an         *)
(* exchange_order event with side, exchange, symbol, value and price.      *)
C26_Original ==
    (Formatted /\ Has(arg, "type")) =>
        /\ arg.type \in {"bitcoin_transfer", "bitcoin_pending"} =>
              /\ Has(ret, "text")
              /\ Len(ret.text) >= 4
              /\ ret.text[2] = arg.btc_amount
              /\ ret.text[3] = arg.usd_value
              /\ ret.text[4] = Take(arg.hash, 16)
        /\ arg.type = "exchange_order" =>
              /\ Has(ret, "text")
              /\ Len(ret.text) = 6
              /\ SubSeq(ret.text, 2, 6) = <<arg.side, arg.exchange, arg.symbol,
                                            arg.usd_value, arg.price>>

---------------------------------------------------------------------------
(* The cycles of transactions.main when the Ethereum source answers with   *)
(* the creation of a contract                                              *)

CycleAnswers(source) ==
    {Unavailable} \cup
    IF source.kind = "eth"
    THEN {EthBlocksOf(<<EthWhale>>), EthBlocksOf(<<EthSmall, EthCreation>>)}
    ELSE IF source.kind = "block" THEN LoopBatches(source)
    ELSE {}

CycleGather ==
    /\ program = "main"
    /\ pc = "fetch"
    /\ src <= Len(MainSources)
    /\ \E answer \in CycleAnswers(MainSources[src]) : GatherStep(answer)

InitCycle ==
    /\ NoRequests
    /\ program = "main"
    /\ btc_threshold = BtcThresholdDefault
    /\ eth_threshold = EthThresholdDefault
    /\ btc_price = 0
    /\ eth_price = 0
    /\ webhook_url \in {"", WebhookUrl}
    /\ seen_transactions = {}
    /\ pc = "prices"
    /\ cycle = 1
    /\ src = 1
    /\ scan = NoScan
    /\ results = <<>>
    /\ sent = 0
    /\ ncalls = 0
    /\ calls = [i \in 1..MaxCalls |-> Idle]
    /\ posts = <<>>
    /\ logged = <<>>
    /\ delivered = <<>>
    /\ arg = <<>>
    /\ ret = <<>>

NextCycles ==
    \/ UpdatePrices
    \/ CycleGather
    \/ MainAlert
    \/ SendAlertPost(1)
    \/ NextCycle

SpecCycles == InitCycle /\ [][NextCycles]_vars

(* C21 as stated: no failure in classification, filtering, dedup or        *)
(* formatting of an event the builders produce ends the polling loop of    *)
(* transactions.main: no exception leaves the loop.                        *)
C21_Original ==
    program = "main" => pc # "stopped"

---------------------------------------------------------------------------
(* Claims about the order and the filter of the events of a batch          *)

(* the event reports the record: the transaction of its hash, the level of *)
(* its price and quantity                                                  *)
Reports(source, event, record) ==
    /\ event.usd_value = RecordUsd(source, record)
    /\ IF source.kind \in {"block", "mempool", "eth"}
       THEN event.hash = record.hash
       ELSE /\ event.price = LevelPrice(source.kind, record)
            /\ event.quantity = LevelQuantity(source.kind, record)

(* the qualifying records the monitor examines, in the order of the batch  *)
(* (for an order book the bids, then the asks)                             *)
QualifyingRecords ==
    LET Qualifies(record) == RecordQualifies(scan.source, record)
    IN  SelectSeq(ScannedRecords(scan.source, scan.raw), Qualifies)

(* C23: in a scan that completes, the events are in the order of the       *)
(* qualifying records of the batch: the k-th event reports the k-th        *)
(* qualifying record, so of two qualifying transactions of a block, or two *)
(* qualifying levels of one side of a book, the first in the input is the  *)
(* first in the output, and no event is emitted twice or out of place.     *)
C23_OrderPreserved ==
    (scan # NoScan /\ ~ScanRaises(scan.source, scan.raw)) =>
        /\ Len(scan.events) = Len(QualifyingRecords)
        /\ \A k \in DOMAIN scan.events :
              Reports(scan.source, scan.events[k], QualifyingRecords[k])

(* a book scan has emitted two orders of one side, of different prices, in *)
(* the order of the levels                                                 *)
C23_Witness ==
    /\ scan # NoScan
    /\ scan.source.kind = "coinbase_pro"
    /\ \E j, k \in DOMAIN scan.events :
          /\ j < k
          /\ scan.events[j].side = scan.events[k].side
          /\ scan.events[j].price # scan.events[k].price
          /\ Reports(scan.source, scan.events[j], QualifyingRecords[j])
          /\ Reports(scan.source, scan.events[k], QualifyingRecords[k])

---------------------------------------------------------------------------
(* The order-book monitors called with a symbol in either letter case      *)

BookSources ==
    { Source(exchange, symbol) :
        exchange \in {"coinbase_pro", "kraken", "gemini", "binance"},
        symbol \in {"BTC-USD", "btc-usd", "ETH-USD", "BTCUSD", "btcusd", "ETHUSD",
                    "ethusd", "BTCUSDT", "btcusdt", "ETHUSDT"} }

NextBook ==
    \/ \E source \in BookSources : \E batch \in ScanBatches(source) :
          MonitorScan(source, batch)
    \/ ScanReturn
    \/ \E btc \in ConfigArgs, eth \in ConfigArgs : WhaleConfig(btc, eth)

SpecBook == InitScan /\ [][NextBook]_vars

(* the threshold of the asset a symbol denotes, in whatever letter case *)
ThresholdOfSymbol(symbol) ==
    IF Contains(Upper(symbol), "BTC") THEN btc_threshold ELSE eth_threshold

OrderEmitted(side, level) ==
    \E k \in DOMAIN scan.events :
        /\ scan.events[k].type = "exchange_order"
        /\ scan.events[k].side = side
        /\ scan.events[k].price = LevelPrice(scan.source.kind, level)
        /\ scan.events[k].quantity = LevelQuantity(scan.source.kind, level)

(* C24 as stated: in a book scan that completes, a level of either side    *)
(* yields an exchange_order event, with the side of the book it came from  *)
(* (bids buy, asks sell), if and only if price x quantity is at least the  *)
(* threshold of the asset the symbol denotes, whatever the exchange and    *)
(* the letter case of the symbol.                                          *)
C24_Original ==
    (/\ scan # NoScan
     /\ Has(scan.source, "symbol")
     /\ ~ScanRaises(scan.source, scan.raw)
     /\ BatchRecords(scan.source, scan.raw) # <<>>) =>
        LET book == BookOf(scan.source.kind, scan.raw)
            Large(level) ==
                LevelPrice(scan.source.kind, level) * LevelQuantity(scan.source.kind, level)
                    >= ThresholdOfSymbol(scan.source.symbol)
        IN  /\ \A i \in DOMAIN book.bids :
                  OrderEmitted("buy", book.bids[i]) <=> Large(book.bids[i])
            /\ \A i \in DOMAIN book.asks :
                  OrderEmitted("sell", book.asks[i]) <=> Large(book.asks[i])

---------------------------------------------------------------------------
(* Claims about the addresses of an on-chain event                         *)

(* the addresses of the inputs and of the outputs that carry one, in the   *)
(* order of the transaction                                                *)
AddressedInputs(tx) ==
    LET addressed == SelectSeq(Get(tx, "inputs", <<>>), InputHasAddr)
    IN  [k \in DOMAIN addressed |-> addressed[k].prev_out.addr]

AddressedOutputs(tx) ==
    LET addressed == SelectSeq(Get(tx, "out", <<>>), OutputHasAddr)
    IN  [k \in DOMAIN addressed |-> addressed[k].addr]

Categorized(addresses) ==
    [k \in DOMAIN addresses |-> [type |-> classify_address(addresses[k])[1]]]

(* the displayed list is the first at most three of the addresses, each    *)
(* with its classification                                                 *)
Displays(displayed, addresses) ==
    /\ Len(displayed) <= 3
    /\ Len(displayed) = (IF Len(addresses) < 3 THEN Len(addresses) ELSE 3)
    /\ \A k \in DOMAIN displayed :
          /\ displayed[k].address = addresses[k]
          /\ <<displayed[k].type, displayed[k].entity>> = classify_address(addresses[k])

(* C25: the transaction type of an on-chain event follows from the         *)
(* classification of all the addressed inputs and outputs of its           *)
(* transaction, and its from_addresses and to_addresses are the first at   *)
(* most 3 classified addresses, in the order of the transaction.           *)
C25_FullClassification ==
    \A event \in BitcoinEvents : \A tx \in TransactionsOf(event) :
        LET rules == TypeRules(Categorized(AddressedInputs(tx)),
                               Categorized(AddressedOutputs(tx)), event.pattern)
        IN  /\ event.transaction_type = rules[FirstRule(rules)].label
            /\ Displays(event.from_addresses, AddressedInputs(tx))
            /\ Displays(event.to_addresses, AddressedOutputs(tx))

(* an event displays three inputs of unknown category and is an            *)
(* exchange_deposit because of the wallet in fourth place                  *)
C25_Witness ==
    \E event \in BitcoinEvents :
        /\ event.hash = TxLateWallet.hash
        /\ Len(event.from_addresses) = 3
        /\ \A k \in 1..3 : event.from_addresses[k].type = "unknown"
        /\ event.transaction_type = "exchange_deposit"

(* the addresses of the outputs that carry a value *)
ValuedOutputAddresses(tx) ==
    LET out == Get(tx, "out", <<>>)
    IN  {out[i].addr : i \in {j \in DOMAIN out :
                                 Has(out[j], "addr") /\ Get(out[j], "value", 0) # 0}}

HasZeroOutput(tx) ==
    \E i \in DOMAIN Get(tx, "out", <<>>) : Get(tx.out[i], "value", 0) = 0

(* C27 as stated: the pattern of an event is taken on the output addresses *)
(* without the outputs of value zero, and in a scan that completes a       *)
(* transaction with a zero-value output whose total passes the threshold   *)
(* is emitted.                                                             *)
C27_Original ==
    /\ \A event \in BitcoinEvents : \A tx \in TransactionsOf(event) :
          (InputAddressSet(tx) # {} /\ ValuedOutputAddresses(tx) # {}) =>
              event.pattern = FirstMatchingLabel(Cardinality(InputAddressSet(tx)),
                                                 Cardinality(ValuedOutputAddresses(tx)))
    /\ (scan.source.kind \in {"block", "mempool"} /\ ~ScanRaises(scan.source, scan.raw)) =>
          LET records == ScannedRecords(scan.source, scan.raw)
          IN  \A i \in DOMAIN records :
                 (HasZeroOutput(records[i]) /\ RecordQualifies(scan.source, records[i]))
                     => RecordEmitted(scan.source, records[i], scan.events)

---------------------------------------------------------------------------
(* WhaleTracker.rate_limit under the coroutines of one gather of           *)
(* transactions.main.  last_requests is keyed by service, so the           *)
(* coroutines of one service are taken at a time.  Time is in              *)
(* milliseconds and advances by Tick while every coroutine waits.          *)

MaxTime == 300

Tick == 50

DefaultDelay == 1000

(* self.request_delays, in milliseconds *)
RequestDelays ==
    ( "etherscan"       :> 200
   @@ "blockchain_info" :> 100
   @@ "coinbase_pro"    :> 100
   @@ "kraken"          :> 200
   @@ "gemini"          :> 100 )

(* self.request_delays.get(service, 1.0) *)
DelayOf(service) ==
    IF service \in DOMAIN RequestDelays THEN RequestDelays[service] ELSE DefaultDelay

(* a coroutine and the number of rate_limit calls it makes, each followed  *)
(* by its request                                                          *)
Coro(name, service, ncall) ==
    [name |-> name, service |-> service, pc |-> "call", wake |-> 0, left |-> ncall]

(* the coroutines of the gather (lines 755-766), by service *)
GatherCoroutines ==
    { << Coro("fetch_large_transactions", "blockchain_info", 2),
         Coro("monitor_mempool", "blockchain_info", 1) >>,
      << Coro("fetch_large_eth_transfers", "etherscan", 1 + EthScannedBlocks) >>,
      << Coro("monitor_coinbase_pro_orderbook BTC-USD", "coinbase_pro", 1),
         Coro("monitor_coinbase_pro_orderbook ETH-USD", "coinbase_pro", 1) >>,
      << Coro("monitor_kraken_orderbook BTCUSD", "kraken", 1),
         Coro("monitor_kraken_orderbook ETHUSD", "kraken", 1) >>,
      << Coro("monitor_gemini_orderbook btcusd", "gemini", 1),
         Coro("monitor_gemini_orderbook ethusd", "gemini", 1) >> }

(* self.last_requests[service] = time(), and the request that follows *)
MarkRequest(c) ==
    LET service == coroutines[c].service
    IN  /\ last_requests' = [last_requests EXCEPT ![service] = <<now>>]
        /\ requests' = Append(requests, [service |-> service, time |-> now,
                                         by |-> coroutines[c].name])
        /\ coroutines' = [coroutines EXCEPT ![c].pc = "request"]

(* rate_limit up to its await: lines 84-88 *)
RateLimit(c) ==
    /\ coroutines[c].pc = "call"
    /\ LET service == coroutines[c].service
           last    == last_requests[service]
       IN  IF last # <<>> /\ now - last[1] < DelayOf(service)
           THEN /\ coroutines' = [coroutines EXCEPT
                                     ![c].pc = "sleep",
                                     ![c].wake = now + (DelayOf(service) - (now - last[1]))]
                /\ UNCHANGED <<last_requests, requests>>
           ELSE MarkRequest(c)
    /\ UNCHANGED <<now, program, btc_threshold, eth_threshold, btc_price, eth_price,
                   webhook_url, seen_transactions, pc, cycle, src, scan, results,
                   sent, ncalls, calls, posts, logged, delivered, arg, ret>>

(* asyncio.sleep returns; line 89 *)
RateLimitWake(c) ==
    /\ coroutines[c].pc = "sleep"
    /\ now >= coroutines[c].wake
    /\ MarkRequest(c)
    /\ UNCHANGED <<now, program, btc_threshold, eth_threshold, btc_price, eth_price,
                   webhook_url, seen_transactions, pc, cycle, src, scan, results,
                   sent, ncalls, calls, posts, logged, delivered, arg, ret>>

(* the response of the request arrives; the coroutine goes on to its next  *)
(* rate_limit call or ends                                                 *)
Respond(c) ==
    /\ coroutines[c].pc = "request"
    /\ coroutines' = [coroutines EXCEPT
                         ![c].pc = IF coroutines[c].left > 1 THEN "call" ELSE "done",
                         ![c].left = coroutines[c].left - 1]
    /\ UNCHANGED <<now, last_requests, requests, program, btc_threshold,
                   eth_threshold, btc_price, eth_price, webhook_url,
                   seen_transactions, pc, cycle, src, scan, results, sent, ncalls,
                   calls, posts, logged, delivered, arg, ret>>

(* time passes while no coroutine is ready to run and no sleep is due *)
Advance ==
    /\ \A c \in DOMAIN coroutines :
          /\ coroutines[c].pc # "call"
          /\ coroutines[c].pc = "sleep" => coroutines[c].wake > now
    /\ \E c \in DOMAIN coroutines : coroutines[c].pc \in {"sleep", "request"}
    /\ now + Tick <= MaxTime
    /\ now' = now + Tick
    /\ UNCHANGED <<last_requests, coroutines, requests, program, btc_threshold,
                   eth_threshold, btc_price, eth_price, webhook_url,
                   seen_transactions, pc, cycle, src, scan, results, sent, ncalls,
                   calls, posts, logged, delivered, arg, ret>>

(* the first gather of the process, or a gather after the 30 s sleep of an *)
(* earlier cycle                                                           *)
InitRate ==
    /\ now = 0
    /\ coroutines \in GatherCoroutines
    /\ \E earlier \in {<<>>, <<-30000>>} :
          last_requests = [service \in DOMAIN RequestDelays |-> earlier]
    /\ requests = <<>>
    /\ program = "main"
    /\ btc_threshold = BtcThresholdDefault
    /\ eth_threshold = EthThresholdDefault
    /\ btc_price = 0
    /\ eth_price = 0
    /\ webhook_url = ""
    /\ seen_transactions = {}
    /\ pc = "gather"
    /\ cycle = 1
    /\ src = 1
    /\ scan = NoScan
    /\ results = <<>>
    /\ sent = 0
    /\ ncalls = 0
    /\ calls = [i \in 1..MaxCalls |-> Idle]
    /\ posts = <<>>
    /\ logged = <<>>
    /\ delivered = <<>>
    /\ arg = <<>>
    /\ ret = <<>>

NextRate ==
    \/ \E c \in DOMAIN coroutines : RateLimit(c)
    \/ \E c \in DOMAIN coroutines : RateLimitWake(c)
    \/ \E c \in DOMAIN coroutines : Respond(c)
    \/ Advance

SpecRate == InitRate /\ [][NextRate]_vars

---------------------------------------------------------------------------
(* Claims about delivery, request spacing and prices                       *)

(* C28 as stated: a fingerprint in seen_transactions whose POST is not     *)
(* under way belongs to an alert the webhook accepted (status 204): a      *)
(* failed delivery is not recorded, so that a later call delivers again.   *)
C28_Original ==
    \A alert_id \in seen_transactions :
        InFlight(alert_id) = {} =>
            \E i \in PostsOf(alert_id) : posts[i].status = HttpNoContent

(* C30 as stated: after every price request, failed or not, the price the *)
(* monitor values transactions with is the price the request returned to   *)
(* its caller.                                                             *)
C30_Original ==
    [][\A b \in PriceAnswers(BtcPrices), e \in PriceAnswers(EthPrices) :
          PriceRequest(b, e) =>
              /\ btc_price' = btc_price_returned(b)
              /\ eth_price' = eth_price_returned(e)]_vars

(* C29 as stated: any two requests to one service are at least the        *)
(* service's delay apart, also when coroutines of one gather call          *)
(* rate_limit for the service concurrently.                                *)
C29_Original ==
    \A i, j \in DOMAIN requests :
        (i < j /\ requests[i].service = requests[j].service)
            => requests[j].time - requests[i].time >= DelayOf(requests[i].service)

===========================================================================
